---- MODULE Spec2Model ----
(***************************************************************************)
(* Model of the debate orchestration core of polydebate:                   *)
(*   - DebateService.run_debate        (backend/services/debate.py)        *)
(*   - DebateService.get_debate_results (backend/services/debate.py)       *)
(*   - Debate.save / Debate.load       (backend/models/debate.py)          *)
(* The durable record is the row of DebateDB plus its MessageDB rows.      *)
(* Every thread is one request handler: a run of run_debate (started by    *)
(* the stream route) or a call of get_debate_results (the results route).  *)
(* Each action is one step between two accesses to the durable record or   *)
(* to a collaborator; a collaborator or a commit that fails is a separate  *)
(* action.                                                                 *)
(***************************************************************************)
EXTENDS Integers, Sequences, FiniteSets, TLC

\* ---------------------------------------------------------------- bounds
MaxRounds == 2
MaxModels == 2
NumCallers == 2
MaxFaults == 2
MaxCallFaults == 1
MaxEntries == 4
MaxValue == 2
MaxOutcomes == 1

\* ------------------------------------------------------ program constants
max_wait_seconds == 60
wait_interval == 2

Threads == 1..NumCallers
\* The thread of the run in the specifications of a single run.
Runner == CHOOSE t \in Threads : \A u \in Threads : t <= u
\* The threads of the runs in the specification of concurrent runs.
Runners == {t \in Threads : t <= 2}

\* None for final_summary (summaries are numbered from 1).
NoSummary == 0
\* None for final_predictions (a dict otherwise, possibly the empty dict).
NoPredictions == {<<0, <<0, 0>>, <<0, 0>>>>}

VARIABLES
    \* the debate's configuration (fixed at creation)
    rounds, nmodels, outcomes,
    \* how many collaborator or commit failures a behaviour may contain
    fault_budget,
    \* the durable record (DebateDB row and its MessageDB rows)
    db_status, db_current_round, db_messages,
    db_final_summary, db_final_predictions, db_summary_generating,
    \* per thread: position and role
    pc, kind,
    \* per thread: locals of run_debate
    debate, round_num, model_index, message, events,
    \* per thread: locals of get_debate_results
    gdebate, messages_dict, waited_seconds, summary, final_predictions, debate_db,
    result,
    \* history
    acquired, released, forced, generated, n_summary_writes, faults,
    \* per thread: how many collaborator calls it has made (history)
    collab_calls,
    \* per thread: the arguments of its calls of generate_response (history)
    llm_calls,
    \* the stream route: the generator's position, the number of queue items it
    \* has taken, the chunk it is yielding, what the consumer has received and
    \* whether the consumer is still connected
    gen, taken, chunk, delivered, connected,
    \* one turn's predictions: as the model emitted them, as generate_response
    \* returned them, as stored on the message, and the position in the turn
    raw, response_predictions, predictions, turn_pc,
    \* one call of _calculate_statistics: its arguments, its result (or the
    \* exception it raised) and its position
    stats_args, statistics_data, stats_pc,
    \* one call of filter_outcomes_for_ai: its argument, its result and its
    \* position
    filter_arg, filtered, filter_pc

cfgvars == <<rounds, nmodels, outcomes, fault_budget>>
dbvars == <<db_status, db_current_round, db_messages,
            db_final_summary, db_final_predictions, db_summary_generating>>
runvars == <<debate, round_num, model_index, message, events>>
gdrvars == <<gdebate, messages_dict, waited_seconds, summary, final_predictions,
             debate_db, result>>
histvars == <<acquired, released, forced, generated, n_summary_writes>>
streamvars == <<gen, taken, chunk, delivered, connected>>
turnvars == <<raw, response_predictions, predictions, turn_pc>>
statvars == <<stats_args, statistics_data, stats_pc>>
filtervars == <<filter_arg, filtered, filter_pc>>
vars == <<cfgvars, dbvars, pc, kind, runvars, gdrvars, histvars, faults,
          collab_calls, llm_calls, streamvars, turnvars, statvars, filtervars>>

\* ------------------------------------------------------------- helpers

\* Python truthiness of final_summary (a dict or None).
TruthySummary(s) == s # NoSummary

\* Python truthiness of final_predictions (None and {} are both falsy).
TruthyPredictions(p) == p # NoPredictions /\ p # {}

message_type_final_first(r, R) ==
    IF r = R THEN "final" ELSE IF r = 1 THEN "initial" ELSE "debate"

message_type(r, R) ==
    IF r = 1 THEN "initial" ELSE IF r = R THEN "final" ELSE "debate"

MessageCreateSequencePerRound(t, r, seq, p, R, text) ==
    [id |-> <<t, seq>>, round |-> r, sequence |-> p, model |-> p,
     message_type |-> message_type(r, R), text |-> text, audio |-> FALSE]

\* Message.create: audio_url is None until speech synthesis succeeds.
MessageCreate(t, r, seq, p, R, text) ==
    [id |-> <<t, seq>>, round |-> r, sequence |-> seq, model |-> p,
     message_type |-> message_type(r, R), text |-> text, audio |-> FALSE]

\* Debate.load orders the MessageDB rows by (round, sequence).
MsgBefore(a, b) ==
    \/ a.round < b.round
    \/ a.round = b.round /\ a.sequence < b.sequence
    \/ a.round = b.round /\ a.sequence = b.sequence /\ a.id[1] < b.id[1]

RECURSIVE OrderRows(_)
OrderRows(S) ==
    IF S = {} THEN <<>>
    ELSE LET first == CHOOSE m \in S : \A o \in S \ {m} : MsgBefore(m, o)
         IN  <<first>> \o OrderRows(S \ {first})

Range(s) == {s[i] : i \in 1..Len(s)}

\* Debate.load: the in-memory Debate built from the durable record.
Load ==
    [status |-> db_status,
     current_round |-> db_current_round,
     messages |-> OrderRows(Range(db_messages)),
     final_summary |-> db_final_summary,
     final_predictions |-> db_final_predictions]

\* The final-predictions dict of get_debate_results: one entry per model that
\* has a message, built from its first and its last message.
ModelMessages(msgs, p) == SelectSeq(msgs, LAMBDA m : m.model = p)

ComputeFinalPredictions(msgs, P) ==
    {<<p, ModelMessages(msgs, p)[1].id, ModelMessages(msgs, p)[Len(ModelMessages(msgs, p))].id>> :
        p \in {q \in 1..P : ModelMessages(msgs, q) # <<>>}}

LoopRunningDetached == TRUE

\* generate() is inside
\* loop.run_until_complete(asyncio.wait_for(event_queue.get(), timeout=5.0))
LoopRunning == gen = "waiting"

\* The task of a streamed run advances only while its event loop is running;
\* a call made outside a stream is not held by any loop.
Scheduled(t) == (gen # "idle" /\ kind[t] = "run") => LoopRunning

\* ------------------------------------------------ get_debate_results

NoDebate ==
    [status |-> "initialized", current_round |-> 0, messages |-> <<>>,
     final_summary |-> NoSummary, final_predictions |-> NoPredictions]

NoRow ==
    [final_summary |-> NoSummary, final_predictions |-> NoPredictions,
     summary_generating |-> FALSE]

\* The row as one query of the session reads it.
Row ==
    [final_summary |-> db_final_summary,
     final_predictions |-> db_final_predictions,
     summary_generating |-> db_summary_generating]

\* The locals of the call of thread t.
Locals(t, d, msgs, w, s, fp, row) ==
    /\ gdebate' = [gdebate EXCEPT ![t] = d]
    /\ messages_dict' = [messages_dict EXCEPT ![t] = msgs]
    /\ waited_seconds' = [waited_seconds EXCEPT ![t] = w]
    /\ summary' = [summary EXCEPT ![t] = s]
    /\ final_predictions' = [final_predictions EXCEPT ![t] = fp]
    /\ debate_db' = [debate_db EXCEPT ![t] = row]

ReturnUncaught(t, how, s) ==
    /\ result' = [result EXCEPT ![t] = [how |-> how, summary |-> s]]
    /\ pc' = [pc EXCEPT ![t] =
          IF kind[t] = "run" /\ how # "raised" THEN "rd_emit_complete" ELSE "done"]
    /\ Locals(t, NoDebate, <<>>, 0, NoSummary, NoPredictions, NoRow)

\* The call ends (its locals go out of scope): the results route answers, or
\* run_debate (which catches what the call raises) goes on to its
\* debate_complete event.
Return(t, how, s) ==
    /\ result' = [result EXCEPT ![t] = [how |-> how, summary |-> s]]
    /\ pc' = [pc EXCEPT ![t] = IF kind[t] = "run" THEN "rd_emit_complete" ELSE "done"]
    /\ Locals(t, NoDebate, <<>>, 0, NoSummary, NoPredictions, NoRow)

\* The save block runs when the loaded debate lacks final_summary or
\* final_predictions.
NeedsSave(d) ==
    ~TruthySummary(d.final_summary) \/ ~TruthyPredictions(d.final_predictions)

\* After the summary is known: final predictions from the cache or computed
\* from messages_dict, then the statistics, then the save block or the return.
AfterSummary(t, d, msgs, s) ==
    IF NeedsSave(d)
    THEN /\ Locals(t, d, msgs, waited_seconds[t], s,
                   IF TruthyPredictions(d.final_predictions)
                   THEN d.final_predictions
                   ELSE ComputeFinalPredictions(msgs, nmodels),
                   debate_db[t])
         /\ pc' = [pc EXCEPT ![t] = "gdr_final_read"]
         /\ UNCHANGED result
    ELSE Return(t, "ok", s)

\* Debate.load, the status check and the cache check.
GDR_LoadNotCompleted(t) ==
    /\ pc[t] = "gdr_load"
    /\ Scheduled(t)
    /\ db_status # "completed"
    /\ Return(t, "none", NoSummary)
    /\ UNCHANGED <<cfgvars, streamvars, turnvars, statvars, filtervars, llm_calls, collab_calls, dbvars, kind, runvars, histvars, faults>>

GDR_LoadCached(t) ==
    /\ pc[t] = "gdr_load"
    /\ Scheduled(t)
    /\ db_status = "completed"
    /\ TruthySummary(db_final_summary)
    /\ AfterSummary(t, Load, Load.messages, db_final_summary)
    /\ UNCHANGED <<cfgvars, streamvars, turnvars, statvars, filtervars, llm_calls, collab_calls, dbvars, kind, runvars, histvars, faults>>

GDR_LoadUncached(t) ==
    /\ pc[t] = "gdr_load"
    /\ Scheduled(t)
    /\ db_status = "completed"
    /\ ~TruthySummary(db_final_summary)
    /\ Locals(t, Load, Load.messages, 0, NoSummary, NoPredictions, NoRow)
    /\ pc' = [pc EXCEPT ![t] = "gdr_poll"]
    /\ UNCHANGED <<cfgvars, streamvars, turnvars, statvars, filtervars, llm_calls, collab_calls, dbvars, kind, runvars, result, histvars, faults>>

\* One iteration of the polling loop reads the row.
\* The summary was persisted meanwhile: reload the debate.
GDR_PollAdopt(t) ==
    /\ pc[t] = "gdr_poll"
    /\ Scheduled(t)
    /\ TruthySummary(db_final_summary)
    /\ pc' = [pc EXCEPT ![t] = "gdr_reload"]
    /\ UNCHANGED <<cfgvars, streamvars, turnvars, statvars, filtervars, llm_calls, collab_calls, dbvars, kind, runvars, gdrvars, histvars, faults>>

GDR_Reload(t) ==
    /\ pc[t] = "gdr_reload"
    /\ Scheduled(t)
    /\ AfterSummary(t, Load, messages_dict[t], db_final_summary)
    /\ UNCHANGED <<cfgvars, streamvars, turnvars, statvars, filtervars, llm_calls, collab_calls, dbvars, kind, runvars, histvars, faults>>

\* Nobody is generating: the caller goes on to set the flag.
GDR_PollFree(t) ==
    /\ pc[t] = "gdr_poll"
    /\ Scheduled(t)
    /\ ~TruthySummary(db_final_summary)
    /\ ~db_summary_generating
    /\ debate_db' = [debate_db EXCEPT ![t] = Row]
    /\ pc' = [pc EXCEPT ![t] = "gdr_acquire"]
    /\ UNCHANGED <<cfgvars, streamvars, turnvars, statvars, filtervars, llm_calls, collab_calls, dbvars, kind, runvars, gdebate, messages_dict,
                   waited_seconds, summary, final_predictions, result, histvars, faults>>

AfterWaitOffByOne(w) == IF w > max_wait_seconds THEN "gdr_force" ELSE "gdr_poll"

\* The loop's exit test after a wait of wait_interval seconds.
AfterWait(w) == IF w >= max_wait_seconds THEN "gdr_force" ELSE "gdr_poll"

\* Somebody is generating: sleep, then poll again or give up waiting.
GDR_PollWait(t) ==
    /\ pc[t] = "gdr_poll"
    /\ Scheduled(t)
    /\ ~TruthySummary(db_final_summary)
    /\ db_summary_generating
    /\ waited_seconds' = [waited_seconds EXCEPT ![t] = @ + wait_interval]
    /\ pc' = [pc EXCEPT ![t] = AfterWait(waited_seconds'[t])]
    /\ forced' = [forced EXCEPT ![t] = AfterWait(waited_seconds'[t]) = "gdr_force"]
    /\ UNCHANGED <<cfgvars, streamvars, turnvars, statvars, filtervars, llm_calls, collab_calls, dbvars, kind, runvars, gdebate, messages_dict, summary,
                   final_predictions, debate_db, result, acquired, released,
                   generated, n_summary_writes, faults>>

\* debate_db.summary_generating = True; db.commit()
GDR_Acquire(t) ==
    /\ pc[t] = "gdr_acquire"
    /\ Scheduled(t)
    /\ db_summary_generating' = TRUE
    /\ acquired' = [acquired EXCEPT ![t] = TRUE]
    /\ pc' = [pc EXCEPT ![t] = "gdr_generate"]
    /\ UNCHANGED <<cfgvars, streamvars, turnvars, statvars, filtervars, llm_calls, collab_calls, db_status, db_current_round, db_messages,
                   db_final_summary, db_final_predictions, kind, runvars, gdrvars,
                   released, forced, generated, n_summary_writes, faults>>

\* The commit of the acquisition raises: the call raises, nothing is written.
GDR_AcquireFail(t) ==
    /\ pc[t] = "gdr_acquire"
    /\ Scheduled(t)
    /\ faults < fault_budget
    /\ faults' = faults + 1
    /\ Return(t, "raised", NoSummary)
    /\ UNCHANGED <<cfgvars, streamvars, turnvars, statvars, filtervars, llm_calls, collab_calls, dbvars, kind, runvars, histvars>>

\* gemini_service.generate_debate_summary returns a summary (each invocation
\* its own) or None; under the lock the save block follows.
NewSummary(t) == t

GDR_Generate(t) ==
    /\ pc[t] = "gdr_generate"
    /\ Scheduled(t)
    /\ collab_calls' = [collab_calls EXCEPT ![t] = @ + 1]
    /\ generated' = generated \cup {t}
    /\ AfterSummary(t, gdebate[t], messages_dict[t], NewSummary(t))
    /\ UNCHANGED <<cfgvars, streamvars, turnvars, statvars, filtervars, llm_calls, dbvars, kind, runvars, acquired, released, forced,
                   n_summary_writes, faults>>

GDR_GenerateNone(t) ==
    /\ pc[t] = "gdr_generate"
    /\ Scheduled(t)
    /\ collab_calls' = [collab_calls EXCEPT ![t] = @ + 1]
    /\ faults < fault_budget
    /\ faults' = faults + 1
    /\ generated' = generated \cup {t}
    /\ AfterSummary(t, gdebate[t], messages_dict[t], NoSummary)
    /\ UNCHANGED <<cfgvars, streamvars, turnvars, statvars, filtervars, llm_calls, dbvars, kind, runvars, acquired, released, forced,
                   n_summary_writes>>

\* An exception under the lock: the handler releases the flag and re-raises.
GDR_GenerateRaise(t) ==
    /\ pc[t] = "gdr_generate"
    /\ Scheduled(t)
    /\ collab_calls' = [collab_calls EXCEPT ![t] = @ + 1]
    /\ faults < fault_budget
    /\ faults' = faults + 1
    /\ generated' = generated \cup {t}
    /\ pc' = [pc EXCEPT ![t] = "gdr_release_on_error"]
    /\ UNCHANGED <<cfgvars, streamvars, turnvars, statvars, filtervars, llm_calls, dbvars, kind, runvars, gdrvars, acquired, released,
                   forced, n_summary_writes>>

GDR_ReleaseOnError(t) ==
    /\ pc[t] = "gdr_release_on_error"
    /\ Scheduled(t)
    /\ db_summary_generating' = FALSE
    /\ released' = [released EXCEPT ![t] = TRUE]
    /\ Return(t, "raised", NoSummary)
    /\ UNCHANGED <<cfgvars, streamvars, turnvars, statvars, filtervars, llm_calls, collab_calls, db_status, db_current_round, db_messages,
                   db_final_summary, db_final_predictions, kind, runvars,
                   acquired, forced, generated, n_summary_writes, faults>>

\* The wait limit was reached: generate without the lock.
GDR_Force(t) ==
    /\ pc[t] = "gdr_force"
    /\ Scheduled(t)
    /\ collab_calls' = [collab_calls EXCEPT ![t] = @ + 1]
    /\ generated' = generated \cup {t}
    /\ AfterSummary(t, gdebate[t], messages_dict[t], NewSummary(t))
    /\ UNCHANGED <<cfgvars, streamvars, turnvars, statvars, filtervars, llm_calls, dbvars, kind, runvars, acquired, released, forced,
                   n_summary_writes, faults>>

GDR_ForceNone(t) ==
    /\ pc[t] = "gdr_force"
    /\ Scheduled(t)
    /\ collab_calls' = [collab_calls EXCEPT ![t] = @ + 1]
    /\ faults < fault_budget
    /\ faults' = faults + 1
    /\ generated' = generated \cup {t}
    /\ AfterSummary(t, gdebate[t], messages_dict[t], NoSummary)
    /\ UNCHANGED <<cfgvars, streamvars, turnvars, statvars, filtervars, llm_calls, dbvars, kind, runvars, acquired, released, forced,
                   n_summary_writes>>

\* An exception outside the lock's handler propagates to the caller.
GDR_ForceRaise(t) ==
    /\ pc[t] = "gdr_force"
    /\ Scheduled(t)
    /\ collab_calls' = [collab_calls EXCEPT ![t] = @ + 1]
    /\ faults < fault_budget
    /\ faults' = faults + 1
    /\ generated' = generated \cup {t}
    /\ Return(t, "raised", NoSummary)
    /\ UNCHANGED <<cfgvars, streamvars, turnvars, statvars, filtervars, llm_calls, dbvars, kind, runvars, acquired, released, forced,
                   n_summary_writes>>

\* The save block queries the row again (a fresh read) ...
GDR_FinalRead(t) ==
    /\ pc[t] = "gdr_final_read"
    /\ Scheduled(t)
    /\ debate_db' = [debate_db EXCEPT ![t] = Row]
    /\ pc' = [pc EXCEPT ![t] = "gdr_final_commit"]
    /\ UNCHANGED <<cfgvars, streamvars, turnvars, statvars, filtervars, llm_calls, collab_calls, dbvars, kind, runvars, gdebate, messages_dict,
                   waited_seconds, summary, final_predictions, result, histvars, faults>>

\* ... assigns final_summary and final_predictions where the row it read has
\* none, assigns summary_generating = False, and commits: a column is
\* updated when the assigned value differs from the value the session read.
WriteSummaryUnderLockOnly(row, s) ==
    ~TruthySummary(row.final_summary) /\ s # row.final_summary /\ ~row.summary_generating

WriteSummary(row, s) == ~TruthySummary(row.final_summary) /\ s # row.final_summary
WritePredictions(row, p) ==
    ~TruthyPredictions(row.final_predictions) /\ p # row.final_predictions
WriteRelease(row) == row.summary_generating

GDR_FinalCommit(t) ==
    /\ pc[t] = "gdr_final_commit"
    /\ Scheduled(t)
    /\ db_final_summary' =
          IF WriteSummary(debate_db[t], summary[t]) THEN summary[t] ELSE db_final_summary
    /\ db_final_predictions' =
          IF WritePredictions(debate_db[t], final_predictions[t])
          THEN final_predictions[t] ELSE db_final_predictions
    /\ db_summary_generating' =
          IF WriteRelease(debate_db[t]) THEN FALSE ELSE db_summary_generating
    /\ n_summary_writes' =
          IF WriteSummary(debate_db[t], summary[t])
          THEN n_summary_writes + 1 ELSE n_summary_writes
    /\ released' = [released EXCEPT ![t] = @ \/ WriteRelease(debate_db[t])]
    /\ Return(t, "ok", summary[t])
    /\ UNCHANGED <<cfgvars, streamvars, turnvars, statvars, filtervars, llm_calls, collab_calls, db_status, db_current_round, db_messages, kind,
                   runvars, acquired, forced, generated, faults>>

\* The commit raises: the exception is logged and the call still returns.
GDR_FinalCommitFail(t) ==
    /\ pc[t] = "gdr_final_commit"
    /\ Scheduled(t)
    /\ faults < fault_budget
    /\ faults' = faults + 1
    /\ Return(t, "ok", summary[t])
    /\ UNCHANGED <<cfgvars, streamvars, turnvars, statvars, filtervars, llm_calls, collab_calls, dbvars, kind, runvars, histvars>>

GDR(t) ==
    \/ GDR_LoadNotCompleted(t) \/ GDR_LoadCached(t) \/ GDR_LoadUncached(t)
    \/ GDR_PollAdopt(t) \/ GDR_Reload(t) \/ GDR_PollFree(t) \/ GDR_PollWait(t)
    \/ GDR_Acquire(t) \/ GDR_AcquireFail(t)
    \/ GDR_Generate(t) \/ GDR_GenerateNone(t) \/ GDR_GenerateRaise(t)
    \/ GDR_ReleaseOnError(t)
    \/ GDR_Force(t) \/ GDR_ForceNone(t) \/ GDR_ForceRaise(t)
    \/ GDR_FinalRead(t) \/ GDR_FinalCommit(t) \/ GDR_FinalCommitFail(t)

\* ------------------------------------------------ filter_outcomes_for_ai
\* An outcome is a record of its name, volume, shares, price_change_24h and
\* price (in hundredths). A field that outcome.get returns is absent (None), a
\* number, or a string that float() cannot parse.

\* str.lower()
lower(name) ==
    CASE name = "Yes" -> "yes"
      [] name = "No" -> "no"
      [] name = "Maybe" -> "maybe"
      [] name = "Other" -> "other"
      [] name = "Placeholder" -> "placeholder"
      [] OTHER -> name

None == [kind |-> "none", num |-> 0]

Num(n) == [kind |-> "num", num |-> n]

Unparsable == [kind |-> "str", num |-> 0]

Outcome(name, volume, shares, price_change_24h, price) ==
    [name |-> name, volume |-> volume, shares |-> shares,
     price_change_24h |-> price_change_24h, price |-> price]

\* float(v) raises ValueError or TypeError.
FloatRaises(v) == v.kind = "str"

\* Python truthiness of a field: None, 0 and '' are falsy.
Truthy(v) == \/ v.kind = "num" /\ v.num # 0
             \/ v.kind = "str"

other_reason_exact_name(outcome) ==
    IF outcome.name = "Other" /\ outcome.price = 50 /\ ~Truthy(outcome.shares)
    THEN "Other with price 0.5 and no shares"
    ELSE ""

\* name_lower == 'other' and price == 0.5: the second look at the shares.
other_reason(outcome) ==
    IF lower(outcome.name) = "other" /\ outcome.price = 50
    THEN IF ~Truthy(outcome.shares)
         THEN "Other with price 0.5 and no shares"
         ELSE IF FloatRaises(outcome.shares)
              THEN "Other with price 0.5 and shares cannot be parsed"
              ELSE IF outcome.shares.num = 0
                   THEN "Other with price 0.5 and no shares"
                   ELSE ""
    ELSE ""

\* The loop body of filter_outcomes_for_ai: the reason the outcome is skipped
\* with `continue`, or "" when it reaches filtered.append(outcome).
reason(outcome) ==
    IF lower(outcome.name) = "placeholder" THEN "placeholder in name"
    ELSE IF outcome.volume # None /\ ~FloatRaises(outcome.volume) /\ outcome.volume.num = 0
         THEN "volume is 0"
    ELSE IF outcome.volume # None /\ FloatRaises(outcome.volume)
         THEN "volume cannot be parsed"
    ELSE IF outcome.shares # None /\ ~FloatRaises(outcome.shares) /\ outcome.shares.num = 0
         THEN "shares is 0"
    ELSE IF outcome.shares # None /\ FloatRaises(outcome.shares)
         THEN "shares cannot be parsed"
    ELSE IF outcome.price_change_24h # None /\ outcome.price_change_24h.kind = "num"
            /\ outcome.price_change_24h.num = 0
         THEN "price_change_24h is 0"
    ELSE other_reason(outcome)

\* filter_outcomes_for_ai: the outcomes that pass every check, in input order.
filter_outcomes_for_ai(os) == SelectSeq(os, LAMBDA outcome : reason(outcome) = "")

\* The outcomes of a debate's market: two outcomes that trade, a market whose
\* outcomes are all placeholders or without volume, and a market with one of
\* each.
MarketOutcomes ==
    <<Outcome("Yes", Num(1), Num(1), Num(1), 70),
      Outcome("No", Num(1), Num(1), Num(1), 30)>>

DebateOutcomes ==
    {MarketOutcomes,
     <<Outcome("Placeholder", None, None, None, 50),
       Outcome("Other", Num(0), Num(0), None, 50)>>,
     <<Outcome("Yes", Num(1), Num(1), Num(1), 70),
       Outcome("Other", None, None, None, 50)>>}

FilterIdle ==
    UNCHANGED <<cfgvars, dbvars, pc, kind, runvars, gdrvars, histvars, faults,
                collab_calls, llm_calls, streamvars, turnvars, statvars>>

\* One call of filter_outcomes_for_ai.
FilterOutcomes ==
    /\ filter_pc = "called"
    /\ filtered' = filter_outcomes_for_ai(filter_arg)
    /\ filter_pc' = "returned"
    /\ UNCHANGED filter_arg
    /\ FilterIdle

\* ------------------------------------------------------- run_debate

Ev(type, r, p, seq, total) ==
    [type |-> type, round |-> r, model |-> p, sequence |-> seq, total_messages |-> total,
     error |-> "", message |-> "", audio |-> FALSE]

\* The message event: message.to_dict(), with the audio reference if any.
MessageEv(m) ==
    [Ev("message", m.round, m.model, m.sequence, 0) EXCEPT !.audio = m.audio]

\* The error and message fields of the error events: what the f-strings hold
\* whatever str(e) is (which may be empty).
start_error_data ==
    [error |-> "Failed to start debate: Exception: ",
     message |-> "Could not initialize debate: "]

save_error_data ==
    [error |-> "Database save failed: Exception: ",
     message |-> "Failed to save message from model"]

turn_error_data_blank == [error |-> "", message |-> ""]

turn_error_data == [error |-> "Exception: ", message |-> "Error from model: "]

unhandled_error_data ==
    [error |-> "Exception: ", message |-> "Unhandled exception in debate stream: "]

ErrorEv(r, p, error_data) ==
    [Ev("error", r, p, 0, 0) EXCEPT !.error = error_data.error,
                                    !.message = error_data.message]

Emit(t, e) == events' = [events EXCEPT ![t] = Append(@, e)]

\* Debate.save: the row takes the in-memory status, current_round,
\* final_summary and final_predictions, and the MessageDB rows are deleted and
\* recreated from the in-memory list; summary_generating is not assigned.
SaveResetsFlag(d) ==
    /\ db_status' = d.status
    /\ db_current_round' = d.current_round
    /\ db_final_summary' = d.final_summary
    /\ db_final_predictions' = d.final_predictions
    /\ db_messages' = d.messages
    /\ db_summary_generating' = FALSE

Save(d) ==
    /\ db_status' = d.status
    /\ db_current_round' = d.current_round
    /\ db_final_summary' = d.final_summary
    /\ db_final_predictions' = d.final_predictions
    /\ db_messages' = d.messages
    /\ UNCHANGED db_summary_generating

\* Debate.load, then the debate_started event.
RD_Load(t) ==
    /\ pc[t] = "rd_load"
    /\ Scheduled(t)
    /\ debate' = [debate EXCEPT ![t] = Load]
    /\ Emit(t, Ev("debate_started", 0, 0, 0, 0))
    /\ pc' = [pc EXCEPT ![t] = "rd_start_save"]
    /\ UNCHANGED <<cfgvars, streamvars, turnvars, statvars, filtervars, llm_calls, collab_calls, dbvars, kind, round_num, model_index, message,
                   gdrvars, histvars, faults>>

\* debate.set_status('in_progress'); debate.save()
RD_StartSave(t) ==
    /\ pc[t] = "rd_start_save"
    /\ Scheduled(t)
    /\ debate' = [debate EXCEPT ![t].status = "in_progress"]
    /\ Save(debate'[t])
    /\ round_num' = [round_num EXCEPT ![t] = 1]
    /\ pc' = [pc EXCEPT ![t] = "rd_round"]
    /\ UNCHANGED <<cfgvars, streamvars, turnvars, statvars, filtervars, llm_calls, collab_calls, kind, model_index, message, events, gdrvars,
                   histvars, faults>>

AfterStartSaveFailContinue == "rd_round"

\* `return` after the error event of a failed start.
AfterStartSaveFail == "done"

\* The save raises: one error event, and the run returns.
RD_StartSaveFail(t) ==
    /\ pc[t] = "rd_start_save"
    /\ Scheduled(t)
    /\ faults < fault_budget
    /\ faults' = faults + 1
    /\ debate' = [debate EXCEPT ![t].status = "in_progress"]
    /\ Emit(t, ErrorEv(0, 0, start_error_data))
    /\ pc' = [pc EXCEPT ![t] = AfterStartSaveFail]
    /\ UNCHANGED <<cfgvars, streamvars, turnvars, statvars, filtervars, llm_calls, collab_calls, dbvars, kind, round_num, model_index, message,
                   gdrvars, histvars>>

\* Top of the round loop: debate.current_round = round_num; debate.save()
RD_RoundSave(t) ==
    /\ pc[t] = "rd_round"
    /\ Scheduled(t)
    /\ debate' = [debate EXCEPT ![t].current_round = round_num[t]]
    /\ Save(debate'[t])
    /\ model_index' = [model_index EXCEPT ![t] = 1]
    /\ pc' = [pc EXCEPT ![t] = "rd_think"]
    /\ UNCHANGED <<cfgvars, streamvars, turnvars, statvars, filtervars, llm_calls, collab_calls, kind, round_num, message, events, gdrvars,
                   histvars, faults>>

\* The save raises: logged, the round goes on.
RD_RoundSaveFail(t) ==
    /\ pc[t] = "rd_round"
    /\ Scheduled(t)
    /\ faults < fault_budget
    /\ faults' = faults + 1
    /\ debate' = [debate EXCEPT ![t].current_round = round_num[t]]
    /\ model_index' = [model_index EXCEPT ![t] = 1]
    /\ pc' = [pc EXCEPT ![t] = "rd_think"]
    /\ UNCHANGED <<cfgvars, streamvars, turnvars, statvars, filtervars, llm_calls, collab_calls, dbvars, kind, round_num, message, events, gdrvars,
                   histvars>>

\* The model_thinking event of a turn.
RD_Think(t) ==
    /\ pc[t] = "rd_think"
    /\ Scheduled(t)
    /\ Emit(t, Ev("model_thinking", round_num[t], model_index[t], 0, 0))
    /\ pc' = [pc EXCEPT ![t] = "rd_respond"]
    /\ UNCHANGED <<cfgvars, streamvars, turnvars, statvars, filtervars, llm_calls, collab_calls, dbvars, kind, debate, round_num, model_index, message,
                   gdrvars, histvars, faults>>

\* Where the loops go after a turn: the next model, the next round, or the
\* end of the rounds.
TurnExit(r, p, R, P) ==
    IF p < P THEN [pc |-> "rd_think", round |-> r, model |-> p + 1]
    ELSE IF r < R THEN [pc |-> "rd_round", round |-> r + 1, model |-> p]
    ELSE [pc |-> "rd_complete_save", round |-> r, model |-> p]

TurnExitOnErrorBreak(r, p, R, P) ==
    IF r < R THEN [pc |-> "rd_round", round |-> r + 1, model |-> p]
    ELSE [pc |-> "rd_complete_save", round |-> r, model |-> p]

\* `continue` in the handlers of a failed turn.
TurnExitOnError(r, p, R, P) == TurnExit(r, p, R, P)

Goto(t, x) ==
    /\ pc' = [pc EXCEPT ![t] = x.pc]
    /\ round_num' = [round_num EXCEPT ![t] = x.round]
    /\ model_index' = [model_index EXCEPT ![t] = x.model]

\* What the API returned as the content of the first choice's message
\* (missing, empty or a text), whether that text holds JSON, and the
\* 'argument' of that JSON (missing, empty or a text).
Payloads ==
    [content : {"missing", "", "text"}, json : BOOLEAN,
     argument : {"missing", "", "text"}]

\* A response of the collaborator as run_debate sees it, or the exception it
\* raised.
Response(content) == [raised |-> FALSE, content |-> content]

Raised == [raised |-> TRUE, content |-> ""]

\* OpenRouterService.generate_response from the payload on: missing or empty
\* content raises; the response's content is parsed.get('argument', content),
\* or the content itself when no JSON is found.
generate_response(data) ==
    IF data.content = "missing" \/ data.content = "" THEN Raised
    ELSE IF data.json /\ data.argument # "missing" THEN Response(data.argument)
    ELSE Response(data.content)

\* is_final_round=(message_type == 'final')
is_final_round(r, R) == message_type(r, R) = "final"

\* The arguments of the call of generate_response in a turn.
LlmCall(r, p, R, os) ==
    [round_num |-> r, model |-> p, is_final_round |-> is_final_round(r, R),
     outcomes |-> filter_outcomes_for_ai(os)]

\* openrouter_service.generate_response returns a response, which passes the
\* validation of run_debate (it is a dict with a 'content' key):
\* Message.create with text = response['content'] and
\* sequence = len(debate.messages) + 1. A response with an empty argument
\* counts as a fault of the collaborator.
RD_Respond(t) ==
    /\ pc[t] = "rd_respond"
    /\ Scheduled(t)
    /\ collab_calls' = [collab_calls EXCEPT ![t] = @ + 1]
    /\ llm_calls' = [llm_calls EXCEPT ![t] =
          Append(@, LlmCall(round_num[t], model_index[t], rounds, outcomes))]
    /\ \E data \in Payloads :
          LET response == generate_response(data)
          IN  /\ ~response.raised
              /\ IF response.content = ""
                 THEN faults < fault_budget /\ faults' = faults + 1
                 ELSE faults' = faults
              /\ message' = [message EXCEPT ![t] =
                    MessageCreate(t, round_num[t], Len(debate[t].messages) + 1,
                                  model_index[t], rounds, response.content)]
    /\ pc' = [pc EXCEPT ![t] = "rd_speech"]
    /\ UNCHANGED <<cfgvars, streamvars, turnvars, statvars, filtervars, dbvars, kind, debate, round_num, model_index, events,
                   gdrvars, histvars>>

\* The collaborator raises (the request fails, or the payload has no or empty
\* content): an error event, and the loop continues.
RD_RespondFail(t) ==
    /\ pc[t] = "rd_respond"
    /\ Scheduled(t)
    /\ collab_calls' = [collab_calls EXCEPT ![t] = @ + 1]
    /\ llm_calls' = [llm_calls EXCEPT ![t] =
          Append(@, LlmCall(round_num[t], model_index[t], rounds, outcomes))]
    /\ faults < fault_budget
    /\ faults' = faults + 1
    /\ Emit(t, ErrorEv(round_num[t], model_index[t], turn_error_data))
    /\ Goto(t, TurnExitOnError(round_num[t], model_index[t], rounds, nmodels))
    /\ UNCHANGED <<cfgvars, streamvars, turnvars, statvars, filtervars, dbvars, kind, debate, message, gdrvars,
                   histvars>>

\* elevenlabs_service.generate_speech, then debate.add_message(message).
RD_Speech(t) ==
    /\ pc[t] = "rd_speech"
    /\ Scheduled(t)
    /\ collab_calls' = [collab_calls EXCEPT ![t] = @ + 1]
    /\ message' = [message EXCEPT ![t].audio = TRUE]
    /\ debate' = [debate EXCEPT ![t].messages = Append(@, message'[t])]
    /\ pc' = [pc EXCEPT ![t] = "rd_message_save"]
    /\ UNCHANGED <<cfgvars, streamvars, turnvars, statvars, filtervars, llm_calls, dbvars, kind, round_num, model_index, events,
                   gdrvars, histvars, faults>>

SpeechFailEventsError(t) ==
    <<ErrorEv(round_num[t], model_index[t], turn_error_data)>>

\* The handlers of a failed speech synthesis only log: no event.
SpeechFailEvents(t) == <<>>

\* Speech synthesis raises or returns an error result: no audio.
RD_SpeechFail(t) ==
    /\ pc[t] = "rd_speech"
    /\ Scheduled(t)
    /\ collab_calls' = [collab_calls EXCEPT ![t] = @ + 1]
    /\ faults < fault_budget
    /\ faults' = faults + 1
    /\ debate' = [debate EXCEPT ![t].messages = Append(@, message[t])]
    /\ events' = [events EXCEPT ![t] = @ \o SpeechFailEvents(t)]
    /\ pc' = [pc EXCEPT ![t] = "rd_message_save"]
    /\ UNCHANGED <<cfgvars, streamvars, turnvars, statvars, filtervars, llm_calls, dbvars, kind, round_num, model_index, message,
                   gdrvars, histvars>>

\* debate.save() after the message, then the message event.
RD_MessageSave(t) ==
    /\ pc[t] = "rd_message_save"
    /\ Scheduled(t)
    /\ Save(debate[t])
    /\ Emit(t, MessageEv(message[t]))
    /\ Goto(t, TurnExit(round_num[t], model_index[t], rounds, nmodels))
    /\ UNCHANGED <<cfgvars, streamvars, turnvars, statvars, filtervars, llm_calls, collab_calls, kind, debate, message, gdrvars, histvars, faults>>

SaveFailEventsWithMessage(t) ==
    <<ErrorEv(round_num[t], model_index[t], save_error_data), MessageEv(message[t])>>

\* The handler of a failed message save puts one error event that carries the
\* model, and continues.
SaveFailEvents(t) == <<ErrorEv(round_num[t], model_index[t], save_error_data)>>

\* The save raises: an error event, no message event, and the loop continues.
RD_MessageSaveFail(t) ==
    /\ pc[t] = "rd_message_save"
    /\ Scheduled(t)
    /\ faults < fault_budget
    /\ faults' = faults + 1
    /\ events' = [events EXCEPT ![t] = @ \o SaveFailEvents(t)]
    /\ Goto(t, TurnExitOnError(round_num[t], model_index[t], rounds, nmodels))
    /\ UNCHANGED <<cfgvars, streamvars, turnvars, statvars, filtervars, llm_calls, collab_calls, dbvars, kind, debate, message, gdrvars, histvars>>

\* debate.set_status('completed'); debate.save(); then get_debate_results.
RD_CompleteSave(t) ==
    /\ pc[t] = "rd_complete_save"
    /\ Scheduled(t)
    /\ debate' = [debate EXCEPT ![t].status = "completed"]
    /\ Save(debate'[t])
    /\ pc' = [pc EXCEPT ![t] = "gdr_load"]
    /\ UNCHANGED <<cfgvars, streamvars, turnvars, statvars, filtervars, llm_calls, collab_calls, kind, round_num, model_index, message, events,
                   gdrvars, histvars, faults>>

\* The save raises: logged, the run goes on.
RD_CompleteSaveFail(t) ==
    /\ pc[t] = "rd_complete_save"
    /\ Scheduled(t)
    /\ faults < fault_budget
    /\ faults' = faults + 1
    /\ debate' = [debate EXCEPT ![t].status = "completed"]
    /\ pc' = [pc EXCEPT ![t] = "gdr_load"]
    /\ UNCHANGED <<cfgvars, streamvars, turnvars, statvars, filtervars, llm_calls, collab_calls, dbvars, kind, round_num, model_index, message, events,
                   gdrvars, histvars>>

\* get_debate_results returned or raised (caught): the debate_complete event
\* with total_messages = len(debate.messages).
TotalMessages(d) == Len(d.messages)

RD_EmitComplete(t) ==
    /\ pc[t] = "rd_emit_complete"
    /\ Scheduled(t)
    /\ Emit(t, Ev("debate_complete", 0, 0, 0, TotalMessages(debate[t])))
    /\ pc' = [pc EXCEPT ![t] = "done"]
    /\ UNCHANGED <<cfgvars, streamvars, turnvars, statvars, filtervars, llm_calls, collab_calls, dbvars, kind, debate, round_num, model_index, message,
                   gdrvars, histvars, faults>>

RD(t) ==
    \/ RD_Load(t)
    \/ RD_StartSave(t) \/ RD_StartSaveFail(t)
    \/ RD_RoundSave(t) \/ RD_RoundSaveFail(t)
    \/ RD_Think(t)
    \/ RD_Respond(t) \/ RD_RespondFail(t)
    \/ RD_Speech(t) \/ RD_SpeechFail(t)
    \/ RD_MessageSave(t) \/ RD_MessageSaveFail(t)
    \/ RD_CompleteSave(t) \/ RD_CompleteSaveFail(t)
    \/ RD_EmitComplete(t)

\* ------------------------------------------------ a turn's predictions
\* A predictions dict is a sequence of <<name, value>> pairs with distinct
\* names, in insertion order; values are in hundredths of a percent point
\* (two decimals), so 100.00 is 10000.

\* valid_outcome_names: the names of the outcomes sent to the model.
valid_outcome_names == {"Yes", "No"}

\* The outcome names a model may emit.
PredictionNames == {"Yes", "yes", "No", "Maybe", "Placeholder"}

Keys(d) == {d[i][1] : i \in DOMAIN d}

Get(d, k) == d[CHOOSE i \in DOMAIN d : d[i][1] = k][2]

\* d[k] = v: an existing key keeps its position.
DictSet(d, k, v) ==
    IF k \in Keys(d)
    THEN [i \in DOMAIN d |-> IF d[i][1] = k THEN <<k, v>> ELSE d[i]]
    ELSE Append(d, <<k, v>>)

RECURSIVE SumValues(_)
SumValues(d) == IF d = <<>> THEN 0 ELSE d[1][2] + SumValues(Tail(d))

\* max(d.items(), key=lambda x: x[1])[0]: the first key of the largest value.
MaxKey(d) ==
    d[CHOOSE i \in DOMAIN d :
        /\ \A j \in DOMAIN d : d[j][2] <= d[i][2]
        /\ \A j \in DOMAIN d : j < i => d[j][2] < d[i][2]][1]

\* round(): n / d rounded to the nearest integer, a tie to the even one.
RoundHalfEven(n, d) ==
    LET q == n \div d
        r == n % d
    IN  IF 2 * r < d THEN q
        ELSE IF 2 * r > d THEN q + 1
        ELSE IF q % 2 = 0 THEN q ELSE q + 1

Abs(x) == IF x < 0 THEN -x ELSE x

\* OpenRouterService.generate_response: predictions that do not sum to 100
\* are normalized to whole percents, the largest taking the residual.
NormalizeWhole(p) ==
    LET total == SumValues(p)
        normalized == [i \in DOMAIN p |->
                         <<p[i][1], 100 * RoundHalfEven(p[i][2] * 100, total)>>]
        diff == 10000 - SumValues(normalized)
    IN  IF p # <<>> /\ total # 10000 /\ total > 0
        THEN IF diff # 0
             THEN DictSet(normalized, MaxKey(normalized),
                          Get(normalized, MaxKey(normalized)) + diff)
             ELSE normalized
        ELSE p

\* run_debate: predictions whose name contains 'placeholder' are dropped.
filtered_predictions(p) == SelectSeq(p, LAMBDA e : lower(e[1]) # "placeholder")

\* The valid outcome a prediction name matches exactly or case-insensitively.
Matches(name) ==
    \/ name \in valid_outcome_names
    \/ \E o \in valid_outcome_names : lower(o) = lower(name)

correct_name(name) ==
    IF name \in valid_outcome_names THEN name
    ELSE CHOOSE o \in valid_outcome_names : lower(o) = lower(name)

RECURSIVE matched_predictions(_)
matched_predictions(p) ==
    IF p = <<>> THEN <<>>
    ELSE LET front == SubSeq(p, 1, Len(p) - 1)
             last == p[Len(p)]
         IN  IF Matches(last[1])
             THEN DictSet(matched_predictions(front), correct_name(last[1]), last[2])
             ELSE matched_predictions(front)

unmatched_predictions(p) == SelectSeq(p, LAMBDA e : ~Matches(e[1]))

\* {**a, **b}
RECURSIVE Update(_, _)
Update(a, b) ==
    IF b = <<>> THEN a ELSE Update(DictSet(a, b[1][1], b[1][2]), Tail(b))

RenormalizeWhole(fp) ==
    LET total == SumValues(fp)
    IN  IF fp # <<>> /\ total > 0
        THEN [i \in DOMAIN fp |-> <<fp[i][1], 100 * RoundHalfEven(fp[i][2] * 100, total)>>]
        ELSE fp

\* run_debate: renormalize to two decimals; the largest value takes the
\* residual when the residual exceeds 0.01.
Renormalize(fp) ==
    LET total == SumValues(fp)
        normalized == [i \in DOMAIN fp |->
                         <<fp[i][1], RoundHalfEven(fp[i][2] * 10000, total)>>]
        diff == 10000 - SumValues(normalized)
    IN  IF fp # <<>> /\ total > 0
        THEN IF Abs(diff) > 1
             THEN DictSet(normalized, MaxKey(normalized),
                          Get(normalized, MaxKey(normalized)) + diff)
             ELSE normalized
        ELSE fp

MatchedOnly(p) == matched_predictions(filtered_predictions(p))

\* run_debate: final_predictions = {**matched_predictions,
\* **unmatched_predictions} of the predictions that are no placeholders.
MatchedAndUnmatched(p) ==
    Update(matched_predictions(filtered_predictions(p)),
           unmatched_predictions(filtered_predictions(p)))

TurnIdle ==
    UNCHANGED <<cfgvars, dbvars, pc, kind, runvars, gdrvars, histvars, faults,
                collab_calls, llm_calls, streamvars, statvars, filtervars>>

\* generate_response parses the predictions the model emitted.
Turn_GenerateResponse ==
    /\ turn_pc = "emitted"
    /\ response_predictions' = NormalizeWhole(raw)
    /\ turn_pc' = "responded"
    /\ UNCHANGED <<raw, predictions>>
    /\ TurnIdle

\* run_debate filters and matches the names of the response's predictions.
Turn_Match ==
    /\ turn_pc = "responded"
    /\ predictions' = MatchedAndUnmatched(response_predictions)
    /\ turn_pc' = "matched"
    /\ UNCHANGED <<raw, response_predictions>>
    /\ TurnIdle

\* The renormalization step; Message.create stores its result.
Turn_Renormalize ==
    /\ turn_pc = "matched"
    /\ predictions' = Renormalize(predictions)
    /\ turn_pc' = "stored"
    /\ UNCHANGED <<raw, response_predictions>>
    /\ TurnIdle

\* ------------------------------------------------ _calculate_statistics
\* The arguments are a record of messages (dicts with model_id, round and
\* predictions), models (their ids), outcomes, polymarket_odds, created_at and
\* completed_at. A timestamp is None, a string that cannot be parsed, or the
\* time in seconds that its string parses to. Prediction values are whole
\* percents here.

RECURSIVE SumSeq(_)
SumSeq(xs) == IF xs = <<>> THEN 0 ELSE xs[1] + SumSeq(Tail(xs))

\* The last message's predictions of every model that has messages, when
\* they are not empty.
all_final_predictions(messages, models) ==
    LET with_messages ==
            SelectSeq(models,
                      LAMBDA model : SelectSeq(messages, LAMBDA m : m.model_id = model) # <<>>)
        last_predictions ==
            [i \in DOMAIN with_messages |->
                LET model_messages ==
                        SelectSeq(messages, LAMBDA m : m.model_id = with_messages[i])
                IN  model_messages[Len(model_messages)].predictions]
    IN  SelectSeq(last_predictions, LAMBDA pred : pred # <<>>)

\* values = [pred.get(outcome_name, 0) for pred in all_final_predictions
\*           if outcome_name in pred]
values(afp, outcome_name) ==
    LET having == SelectSeq(afp, LAMBDA pred : outcome_name \in Keys(pred))
    IN  [i \in DOMAIN having |-> Get(having[i], outcome_name)]

\* statistics.median
median(xs) ==
    LET sorted == SortSeq(xs, LAMBDA a, b : a < b)
        n == Len(xs)
    IN  IF n % 2 = 1 THEN [n |-> sorted[(n + 1) \div 2], d |-> 1]
        ELSE [n |-> sorted[n \div 2] + sorted[(n \div 2) + 1], d |-> 2]

\* The outcomes that some final prediction names.
predicted_outcomes(afp, os) ==
    SelectSeq(os, LAMBDA outcome : values(afp, outcome.name) # <<>>)

average_prediction(afp, os) ==
    LET named == predicted_outcomes(afp, os)
    IN  [i \in DOMAIN named |->
            <<named[i].name,
              RoundHalfEven(SumSeq(values(afp, named[i].name)),
                            Len(values(afp, named[i].name)))>>]

median_prediction(afp, os) ==
    LET named == predicted_outcomes(afp, os)
    IN  [i \in DOMAIN named |->
            <<named[i].name,
              RoundHalfEven(median(values(afp, named[i].name)).n,
                            median(values(afp, named[i].name)).d)>>]

RECURSIVE variance_values(_, _)
variance_values(afp, os) ==
    IF os = <<>> THEN <<>>
    ELSE values(afp, os[1].name) \o variance_values(afp, Tail(os))

\* round(stats.variance(variance_values), 1) if len(variance_values) > 1
\* else 0, in tenths: the sample variance.
prediction_variance(xs) ==
    LET n == Len(xs)
        squares == SumSeq([i \in DOMAIN xs |-> xs[i] * xs[i]])
    IN  IF n > 1
        THEN RoundHalfEven(10 * (n * squares - SumSeq(xs) * SumSeq(xs)), n * (n - 1))
        ELSE 0

\* parser.parse raises.
ParseRaises(timestamp) == timestamp.kind = "str"

\* The duration: the seconds from created_at to completed_at when both are
\* given and parse, and 0 otherwise.
total_duration_seconds(created_at, completed_at) ==
    IF created_at # None /\ completed_at # None
    THEN IF ParseRaises(created_at) \/ ParseRaises(completed_at)
         THEN 0
         ELSE completed_at.num - created_at.num
    ELSE 0

RECURSIVE MaxRound(_)
MaxRound(messages) ==
    IF messages = <<>> THEN 0
    ELSE LET rest == MaxRound(Tail(messages))
         IN  IF messages[1].round > rest THEN messages[1].round ELSE rest

\* dict.get(key, 0)
GetOrZero(d, k) == IF k \in Keys(d) THEN Get(d, k) ELSE 0

\* The AI vs market delta of the main (first) outcome: ai_avg minus
\* market_prob * 100; the label and the magnitude abs(delta) that the
\* f-string prints with it.
ai_vs_market_delta(average, polymarket_odds, os) ==
    IF average # <<>> /\ polymarket_odds # <<>> /\ os # <<>>
    THEN LET delta == GetOrZero(average, os[1].name)
                      - GetOrZero(polymarket_odds, os[1].name) * 100
             abs_delta == IF delta < 0 THEN -delta ELSE delta
         IN  IF delta > 0 THEN [label |-> "more bullish", magnitude |-> abs_delta]
             ELSE IF delta < 0 THEN [label |-> "more bearish", magnitude |-> abs_delta]
             ELSE [label |-> "AI aligned with market", magnitude |-> 0]
    ELSE [label |-> "N/A", magnitude |-> 0]

\* DebateService._calculate_statistics
calculate_statistics(args) ==
    LET afp == all_final_predictions(args.messages, args.models)
    IN  [raised |-> FALSE,
         ai_vs_market_delta |->
            ai_vs_market_delta(average_prediction(afp, args.outcomes),
                               args.polymarket_odds, args.outcomes),
         average_prediction |-> average_prediction(afp, args.outcomes),
         median_prediction |-> median_prediction(afp, args.outcomes),
         prediction_variance |-> prediction_variance(variance_values(afp, args.outcomes)),
         total_messages |-> Len(args.messages),
         total_duration_seconds |->
            total_duration_seconds(args.created_at, args.completed_at),
         models_count |-> Len(args.models),
         rounds_completed |-> MaxRound(args.messages)]

StatsIdle ==
    UNCHANGED <<cfgvars, dbvars, pc, kind, runvars, gdrvars, histvars, faults,
                collab_calls, llm_calls, streamvars, turnvars, filtervars>>

\* One call of _calculate_statistics.
CalculateStatistics ==
    /\ stats_pc = "called"
    /\ statistics_data' = calculate_statistics(stats_args)
    /\ stats_pc' = "returned"
    /\ UNCHANGED stats_args
    /\ StatsIdle

\* ------------------------------------------------------ stream_debate
\* generate() drives the event loop: run_debate advances only inside
\* loop.run_until_complete, and the generator is suspended at each yield while
\* the server writes the chunk to the consumer.

NoChunk == Ev("none", 0, 0, 0, 0)

KeepAlive == Ev("keepalive", 0, 0, 0, 0)

QueueNewest(q, n) == q[Len(q)]

\* event_queue.get(): the queue is first in, first out; n items were taken.
QueueHead(q, n) == q[n + 1]

\* str.strip() leaves nothing.
Blank(s) == s \in {"", " "}

\* The SSE chunk of an event: 'error' is renamed to 'debate_error', and a
\* blank error or message field is filled from the other one.
SSE(e) ==
    IF e.type = "error"
    THEN [e EXCEPT !.type = "debate_error",
                   !.error = IF ~Blank(e.error) THEN e.error
                             ELSE IF ~Blank(e.message) THEN e.message
                             ELSE "Unknown error occurred",
                   !.message = IF ~Blank(e.message) THEN e.message
                               ELSE IF ~Blank(e.error) THEN e.error
                               ELSE "Unknown error occurred"]
    ELSE e

StreamIdle ==
    UNCHANGED <<cfgvars, dbvars, pc, kind, runvars, gdrvars, histvars, faults,
                collab_calls, llm_calls, turnvars, statvars, filtervars>>

\* The queue holds an event: format it and yield it.
S_Get ==
    /\ gen = "waiting"
    /\ taken < Len(events[Runner])
    /\ taken' = taken + 1
    /\ chunk' = SSE(QueueHead(events[Runner], taken))
    /\ gen' = "yielding"
    /\ UNCHANGED <<delivered, connected>>
    /\ StreamIdle

\* The queue holds the None that ends the stream: break, then the cleanup.
S_GetNone ==
    /\ gen = "waiting"
    /\ taken = Len(events[Runner])
    /\ pc[Runner] = "done"
    /\ gen' = "closed"
    /\ UNCHANGED <<taken, chunk, delivered, connected>>
    /\ StreamIdle

S_KeepAliveTaskDone ==
    /\ gen = "waiting"
    /\ taken = Len(events[Runner])
    /\ chunk' = KeepAlive
    /\ gen' = "yielding"
    /\ UNCHANGED <<taken, delivered, connected>>
    /\ StreamIdle

\* asyncio.TimeoutError while the task is still running: yield a keepalive.
S_KeepAlive ==
    /\ gen = "waiting"
    /\ taken = Len(events[Runner])
    /\ pc[Runner] # "done"
    /\ chunk' = KeepAlive
    /\ gen' = "yielding"
    /\ UNCHANGED <<taken, delivered, connected>>
    /\ StreamIdle

\* The server writes the yielded chunk to the consumer and resumes the
\* generator (a keepalive is a comment line, not an event).
S_Write ==
    /\ gen = "yielding"
    /\ connected
    /\ delivered' = IF chunk = KeepAlive THEN delivered ELSE Append(delivered, chunk)
    /\ chunk' = NoChunk
    /\ gen' = "waiting"
    /\ UNCHANGED <<taken, connected>>
    /\ StreamIdle

\* The consumer is gone: the server closes the generator at its yield, and
\* the finally block cancels the task and closes the loop.
S_Close ==
    /\ gen = "yielding"
    /\ ~connected
    /\ chunk' = NoChunk
    /\ gen' = "closed"
    /\ UNCHANGED <<taken, delivered, connected>>
    /\ StreamIdle

\* The consumer disconnects.
Disconnect ==
    /\ connected
    /\ gen # "closed"
    /\ connected' = FALSE
    /\ UNCHANGED <<gen, taken, chunk, delivered>>
    /\ StreamIdle

\* Debate.load raises in run_debate: run_debate_and_stream catches it and
\* puts an error event.
RD_LoadFail(t) ==
    /\ pc[t] = "rd_load"
    /\ Scheduled(t)
    /\ faults < fault_budget
    /\ faults' = faults + 1
    /\ Emit(t, ErrorEv(0, 0, unhandled_error_data))
    /\ pc' = [pc EXCEPT ![t] = "done"]
    /\ UNCHANGED <<cfgvars, streamvars, turnvars, statvars, filtervars, llm_calls, collab_calls, dbvars, kind, debate,
                   round_num, model_index, message, gdrvars, histvars>>

\* ------------------------------------------------------ specifications

NoMessage == MessageCreate(0, 0, 0, 0, 0, "")

InitLocals ==
    /\ debate = [t \in Threads |-> NoDebate]
    /\ round_num = [t \in Threads |-> 0]
    /\ model_index = [t \in Threads |-> 0]
    /\ message = [t \in Threads |-> NoMessage]
    /\ events = [t \in Threads |-> <<>>]
    /\ gdebate = [t \in Threads |-> NoDebate]
    /\ messages_dict = [t \in Threads |-> <<>>]
    /\ waited_seconds = [t \in Threads |-> 0]
    /\ summary = [t \in Threads |-> NoSummary]
    /\ final_predictions = [t \in Threads |-> NoPredictions]
    /\ debate_db = [t \in Threads |-> NoRow]
    /\ result = [t \in Threads |-> [how |-> "pending", summary |-> NoSummary]]
    /\ acquired = [t \in Threads |-> FALSE]
    /\ released = [t \in Threads |-> FALSE]
    /\ forced = [t \in Threads |-> FALSE]
    /\ generated = {}
    /\ n_summary_writes = 0
    /\ faults = 0
    /\ collab_calls = [t \in Threads |-> 0]
    /\ llm_calls = [t \in Threads |-> <<>>]

\* No stream and no turn under way.
InitNoStream ==
    /\ gen = "idle"
    /\ taken = 0
    /\ chunk = NoChunk
    /\ delivered = <<>>
    /\ connected = FALSE

InitNoTurn ==
    /\ raw = <<>>
    /\ response_predictions = <<>>
    /\ predictions = <<>>
    /\ turn_pc = "idle"

NoStatistics == [raised |-> FALSE]

InitNoStatistics ==
    /\ stats_args = NoStatistics
    /\ statistics_data = NoStatistics
    /\ stats_pc = "idle"

InitNoFilter ==
    /\ filter_arg = <<>>
    /\ filtered = <<>>
    /\ filter_pc = "idle"

\* Debate.create and the first save: a fresh debate.
InitFresh ==
    /\ rounds \in 1..MaxRounds
    /\ nmodels \in 1..MaxModels
    /\ outcomes = MarketOutcomes
    /\ db_status = "initialized"
    /\ db_current_round = 0
    /\ db_messages = <<>>
    /\ db_final_summary = NoSummary
    /\ db_final_predictions = NoPredictions
    /\ db_summary_generating = FALSE

\* One run of run_debate on a fresh debate, nobody else using the debate.
Init ==
    /\ InitFresh
    /\ InitLocals
    /\ InitNoStream
    /\ InitNoTurn
    /\ InitNoStatistics
    /\ InitNoFilter
    /\ fault_budget = MaxFaults
    /\ kind = [t \in Threads |-> IF t = Runner THEN "run" ELSE "none"]
    /\ pc = [t \in Threads |-> IF t = Runner THEN "rd_load" ELSE "done"]

Next ==
    \E t \in Threads :
        \/ RD(t)
        \/ GDR_LoadNotCompleted(t) \/ GDR_LoadUncached(t) \/ GDR_PollFree(t)
        \/ GDR_Acquire(t) \/ GDR_AcquireFail(t)
        \/ GDR_Generate(t) \/ GDR_GenerateNone(t) \/ GDR_GenerateRaise(t)
        \/ GDR_ReleaseOnError(t)
        \/ GDR_FinalRead(t) \/ GDR_FinalCommit(t) \/ GDR_FinalCommitFail(t)

Spec == Init /\ [][Next]_vars

\* The transcript of a run of R rounds of P models in which no turn failed.
RECURSIVE Transcript(_, _, _)
Transcript(k, R, P) ==
    IF k = 0 THEN <<>>
    ELSE Append(Transcript(k - 1, R, P),
                MessageCreate(Runner, ((k - 1) \div P) + 1, k, ((k - 1) % P) + 1, R,
                              "text"))

\* A debate of one round and one model (its turn failed or not) that is
\* completed, or still in progress, with no summary persisted yet, and
\* concurrent calls of get_debate_results.
InitResults ==
    /\ rounds = 1
    /\ nmodels = 1
    /\ outcomes = MarketOutcomes
    /\ db_status \in {"completed", "in_progress"}
    /\ db_current_round = 1
    /\ db_messages \in {<<>>, Transcript(1, 1, 1)}
    /\ db_final_summary = NoSummary
    /\ db_final_predictions = NoPredictions
    /\ db_summary_generating = FALSE
    /\ InitLocals
    /\ InitNoStream
    /\ InitNoTurn
    /\ InitNoStatistics
    /\ InitNoFilter
    /\ fault_budget = MaxCallFaults
    /\ kind = [t \in Threads |-> "results"]
    /\ pc = [t \in Threads |-> "gdr_load"]

NextResults == \E t \in Threads : GDR(t)

SpecResults == InitResults /\ [][NextResults]_vars


\* The lone run under weak fairness: the event loop keeps running the task,
\* and every collaborator call and commit returns or raises.
FairSpec == Spec /\ WF_vars(Next)

\* Two concurrent runs of run_debate on a fresh debate of one round and one
\* model (two consumers of the stream route), without failures.
InitConc ==
    /\ InitFresh
    /\ rounds = 1
    /\ nmodels = 1
    /\ InitLocals
    /\ InitNoStream
    /\ InitNoTurn
    /\ InitNoStatistics
    /\ InitNoFilter
    /\ fault_budget = 0
    /\ kind = [t \in Threads |-> IF t \in Runners THEN "run" ELSE "none"]
    /\ pc = [t \in Threads |-> IF t \in Runners THEN "rd_load" ELSE "done"]

NextConc ==
    \E t \in Threads :
        \/ RD_Load(t) \/ RD_StartSave(t) \/ RD_RoundSave(t) \/ RD_Think(t)
        \/ RD_Respond(t) \/ RD_Speech(t) \/ RD_MessageSave(t)
        \/ RD_CompleteSave(t) \/ RD_EmitComplete(t)
        \/ GDR_LoadNotCompleted(t) \/ GDR_LoadCached(t) \/ GDR_LoadUncached(t)
        \/ GDR_PollAdopt(t) \/ GDR_Reload(t) \/ GDR_PollFree(t) \/ GDR_PollWait(t)
        \/ GDR_Acquire(t) \/ GDR_Generate(t) \/ GDR_Force(t)
        \/ GDR_FinalRead(t) \/ GDR_FinalCommit(t)

SpecConc == InitConc /\ [][NextConc]_vars

\* A run of run_debate on a debate that an earlier run completed (the stream
\* route starts run_debate whatever the debate's status is).
InitRerun ==
    /\ rounds \in 1..MaxRounds
    /\ nmodels \in 1..MaxModels
    /\ outcomes = MarketOutcomes
    /\ db_status = "completed"
    /\ db_current_round = rounds
    /\ db_messages = Transcript(rounds * nmodels, rounds, nmodels)
    /\ \/ /\ db_final_summary = NoSummary
          /\ db_final_predictions = NoPredictions
       \/ /\ db_final_summary = NewSummary(Runner)
          /\ db_final_predictions = ComputeFinalPredictions(db_messages, nmodels)
    /\ db_summary_generating = FALSE
    /\ InitLocals
    /\ InitNoStream
    /\ InitNoTurn
    /\ InitNoStatistics
    /\ InitNoFilter
    /\ fault_budget = MaxCallFaults
    /\ kind = [t \in Threads |-> IF t = Runner THEN "run" ELSE "none"]
    /\ pc = [t \in Threads |-> IF t = Runner THEN "rd_load" ELSE "done"]

NextRerun ==
    \E t \in Threads :
        \/ RD(t)
        \/ GDR_LoadNotCompleted(t) \/ GDR_LoadCached(t) \/ GDR_LoadUncached(t)
        \/ GDR_PollFree(t) \/ GDR_Acquire(t) \/ GDR_AcquireFail(t)
        \/ GDR_Generate(t) \/ GDR_GenerateNone(t) \/ GDR_GenerateRaise(t)
        \/ GDR_ReleaseOnError(t)
        \/ GDR_FinalRead(t) \/ GDR_FinalCommit(t) \/ GDR_FinalCommitFail(t)

SpecRerun == InitRerun /\ [][NextRerun]_vars

\* One run of run_debate on a fresh debate of one round, streamed to a
\* consumer that may disconnect.
InitStream ==
    /\ InitFresh
    /\ rounds = 1
    /\ InitLocals
    /\ InitNoTurn
    /\ InitNoStatistics
    /\ InitNoFilter
    /\ fault_budget = MaxCallFaults
    /\ kind = [t \in Threads |-> IF t = Runner THEN "run" ELSE "none"]
    /\ pc = [t \in Threads |-> IF t = Runner THEN "rd_load" ELSE "done"]
    /\ gen = "waiting"
    /\ taken = 0
    /\ chunk = NoChunk
    /\ delivered = <<>>
    /\ connected = TRUE

NextStream ==
    \/ \E t \in Threads :
            \/ RD(t) \/ RD_LoadFail(t)
            \/ GDR_LoadNotCompleted(t) \/ GDR_LoadUncached(t) \/ GDR_PollFree(t)
            \/ GDR_Acquire(t) \/ GDR_AcquireFail(t)
            \/ GDR_Generate(t) \/ GDR_GenerateNone(t) \/ GDR_GenerateRaise(t)
            \/ GDR_ReleaseOnError(t)
            \/ GDR_FinalRead(t) \/ GDR_FinalCommit(t) \/ GDR_FinalCommitFail(t)
    \/ S_Get \/ S_GetNone \/ S_KeepAlive \/ S_Write \/ S_Close
    \/ Disconnect

SpecStream == InitStream /\ [][NextStream]_vars

\* The streamed run with a generator that keeps going: the server keeps
\* pulling chunks from generate(), and each wait on the queue ends with an
\* item or with the timeout of 5 seconds.
Generator == S_Get \/ S_GetNone \/ S_KeepAlive \/ S_Write \/ S_Close

FairSpecStream == SpecStream /\ WF_vars(Generator)

\* One run of run_debate on a fresh debate of one model and of up to
\* MaxRounds + 1 rounds (so that a round that is neither the first nor the
\* last exists), on a market whose outcomes may all be filtered out.
InitRounds ==
    /\ rounds \in 1..(MaxRounds + 1)
    /\ nmodels = 1
    /\ outcomes \in DebateOutcomes
    /\ db_status = "initialized"
    /\ db_current_round = 0
    /\ db_messages = <<>>
    /\ db_final_summary = NoSummary
    /\ db_final_predictions = NoPredictions
    /\ db_summary_generating = FALSE
    /\ InitLocals
    /\ InitNoStream
    /\ InitNoTurn
    /\ InitNoStatistics
    /\ InitNoFilter
    /\ fault_budget = MaxCallFaults
    /\ kind = [t \in Threads |-> IF t = Runner THEN "run" ELSE "none"]
    /\ pc = [t \in Threads |-> IF t = Runner THEN "rd_load" ELSE "done"]

NextRounds ==
    \E t \in Threads :
        \/ RD(t)
        \/ GDR_LoadNotCompleted(t) \/ GDR_LoadUncached(t) \/ GDR_PollFree(t)
        \/ GDR_Acquire(t) \/ GDR_AcquireFail(t)
        \/ GDR_Generate(t) \/ GDR_GenerateNone(t) \/ GDR_GenerateRaise(t)
        \/ GDR_ReleaseOnError(t)
        \/ GDR_FinalRead(t) \/ GDR_FinalCommit(t) \/ GDR_FinalCommitFail(t)

SpecRounds == InitRounds /\ [][NextRounds]_vars

\* The arguments of _calculate_statistics: up to MaxModels messages of models
\* 1..MaxModels in rounds 1..MaxRounds, with or without predictions.
StatsPredictions ==
    {<<>>, <<<<"Yes", 70>>, <<"No", 30>>>>, <<<<"Yes", 45>>>>}

StatsMessages(k) ==
    [1..k -> [model_id : 1..MaxModels, round : 1..MaxRounds,
              predictions : StatsPredictions]]

Timestamps == {None, Unparsable, Num(0), Num(MaxRounds)}

InitStats ==
    /\ InitFresh
    /\ rounds = 1
    /\ nmodels = 1
    /\ InitLocals
    /\ InitNoStream
    /\ InitNoTurn
    /\ InitNoFilter
    /\ fault_budget = 0
    /\ kind = [t \in Threads |-> "none"]
    /\ pc = [t \in Threads |-> "done"]
    /\ \E k \in 0..MaxModels :
          \E messages \in StatsMessages(k) :
          \E models \in {<<>>, [i \in 1..MaxModels |-> i]} :
          \E os \in {<<>>, MarketOutcomes} :
          \E polymarket_odds \in {<<>>, <<<<"Yes", 70>>, <<"No", 30>>>>} :
          \E created_at \in Timestamps, completed_at \in Timestamps :
              stats_args = [messages |-> messages, models |-> models, outcomes |-> os,
                            polymarket_odds |-> polymarket_odds,
                            created_at |-> created_at, completed_at |-> completed_at]
    /\ statistics_data = NoStatistics
    /\ stats_pc = "called"

NextStats == CalculateStatistics

SpecStats == InitStats /\ [][NextStats]_vars

\* The argument of filter_outcomes_for_ai: up to MaxOutcomes outcomes with
\* any fields, or up to MaxOutcomes + 2 outcomes of a few kinds (kept ones
\* and removed ones), so that the order of the kept outcomes shows.
OutcomeNames == {"Yes", "Other", "other", "Placeholder"}

FieldValues == {None, Num(0), Num(1), Unparsable}

AnyOutcomes ==
    {Outcome(name, volume, shares, price_change_24h, price) :
        name \in OutcomeNames, volume \in FieldValues, shares \in FieldValues,
        price_change_24h \in FieldValues, price \in {50, 70}}

SampleOutcomes ==
    {Outcome("Yes", Num(1), Num(1), Num(1), 70),
     Outcome("Other", None, Num(1), None, 50),
     Outcome("Yes", Unparsable, Num(1), Num(1), 70),
     Outcome("Placeholder", Num(1), Num(1), Num(1), 70)}

InitFilter ==
    /\ InitFresh
    /\ rounds = 1
    /\ nmodels = 1
    /\ InitLocals
    /\ InitNoStream
    /\ InitNoTurn
    /\ InitNoStatistics
    /\ fault_budget = 0
    /\ kind = [t \in Threads |-> "none"]
    /\ pc = [t \in Threads |-> "done"]
    /\ \/ \E k \in 0..MaxOutcomes : filter_arg \in [1..k -> AnyOutcomes]
       \/ \E k \in 0..(MaxOutcomes + 2) : filter_arg \in [1..k -> SampleOutcomes]
    /\ filtered = <<>>
    /\ filter_pc = "called"

NextFilter == FilterOutcomes

SpecFilter == InitFilter /\ [][NextFilter]_vars

\* The predictions a model may emit: up to MaxEntries entries with values of
\* 0.00 .. MaxValue hundredths, the example of a case mismatch, and mappings
\* that are already normalized.
InjectiveNames(k) ==
    {ns \in [1..k -> PredictionNames] : \A i, j \in 1..k : i # j => ns[i] # ns[j]}

ExampleRaw == <<<<"yes", 7000>>, <<"no", 2000>>>>

\* Mappings of two-decimal values that sum to 100.00.
NormalizedRaws ==
    {<<<<"Yes", 3333>>, <<"No", 6667>>>>,
     <<<<"Yes", 3333>>, <<"No", 3333>>, <<"Maybe", 3334>>>>,
     <<<<"No", 1250>>, <<"Yes", 8750>>>>}

RawInputs(k) ==
    {[i \in 1..k |-> <<ns[i], vs[i]>>] :
        ns \in InjectiveNames(k), vs \in [1..k -> 0..MaxValue]}

InitTurn ==
    /\ InitFresh
    /\ rounds = 1
    /\ nmodels = 1
    /\ InitLocals
    /\ InitNoStream
    /\ InitNoStatistics
    /\ InitNoFilter
    /\ fault_budget = 0
    /\ kind = [t \in Threads |-> "none"]
    /\ pc = [t \in Threads |-> "done"]
    /\ \/ raw \in {ExampleRaw} \cup NormalizedRaws
       \/ \E k \in 0..MaxEntries : raw \in RawInputs(k)
    /\ response_predictions = <<>>
    /\ predictions = <<>>
    /\ turn_pc = "emitted"

NextTurn == Turn_GenerateResponse \/ Turn_Match \/ Turn_Renormalize

SpecTurn == InitTurn /\ [][NextTurn]_vars

\* ------------------------------------------------------------- claims

OfType(es, ty) == SelectSeq(es, LAMBDA e : e.type = ty)

\* The call of thread t has ended.
Ended(t) == result[t].how # "pending"

\* C1: two calls of get_debate_results on the same completed debate whose
\* final_summary was null, with no failure of a collaborator or a commit:
\* final_summary is written exactly once and both calls return the persisted
\* summary.
C1_OneSummaryForBoth ==
    \A t, u \in Threads :
        (t # u /\ faults = 0 /\ db_status = "completed"
              /\ result[t].how = "ok" /\ result[u].how = "ok")
        => /\ n_summary_writes = 1
           /\ result[t].summary = db_final_summary
           /\ result[u].summary = db_final_summary

\* C2: when the summarizer returns a summary and no caller reaches the wait
\* limit, generate_debate_summary is invoked at most once for the debate.
C2_AtMostOneGeneration ==
    (faults = 0 /\ \A t \in Threads : ~forced[t]) => Cardinality(generated) <= 1

\* C3: a call that set summary_generating to true has set it back to false
\* by the time it returns or raises.
C3_ReleasedWhenEnded ==
    \A t \in Threads : (Ended(t) /\ acquired[t]) => released[t]

\* The number of waits the loop allows.
MaxPolls == max_wait_seconds \div wait_interval

\* One step of the polling loop of thread t, and its exit to the forced
\* generation.
C4_WaitStep(t) ==
    /\ (pc[t] = "gdr_poll" /\ db_summary_generating /\ ~TruthySummary(db_final_summary)
           /\ <<pc[t], waited_seconds[t]>>' # <<pc[t], waited_seconds[t]>>)
       => /\ waited_seconds'[t] = waited_seconds[t] + wait_interval
          /\ pc'[t] = IF waited_seconds'[t] = max_wait_seconds
                      THEN "gdr_force" ELSE "gdr_poll"
    /\ (pc[t] = "gdr_force" /\ pc'[t] # "gdr_force") => t \in generated'

\* C4: polling is bounded: every wait adds wait_interval to waited_seconds,
\* a caller that finds the flag set and no summary waits again only while
\* waited_seconds is below max_wait_seconds (at most 30 waits), and leaves the
\* loop to generate the summary itself once the limit is reached.
C4_BoundedPolling ==
    /\ [](\A t \in Threads :
            /\ waited_seconds[t] \in {wait_interval * k : k \in 0..MaxPolls}
            /\ pc[t] = "gdr_poll" => waited_seconds[t] < max_wait_seconds
            /\ pc[t] = "gdr_force" => waited_seconds[t] = max_wait_seconds)
    /\ [][\A t \in Threads : C4_WaitStep(t)]_vars

C4_Witness ==
    \E t \in Threads : forced[t] /\ t \in generated /\ ~acquired[t]

C5_ForcedCommit(t) ==
    (forced[t] /\ pc[t] = "gdr_final_commit" /\ pc'[t] # "gdr_final_commit")
    => /\ result'[t] = [how |-> "ok", summary |-> summary[t]]
       /\ db_final_summary' =
             IF /\ faults' = faults
                /\ TruthySummary(summary[t])
                /\ ~TruthySummary(debate_db[t].final_summary)
             THEN summary[t]
             ELSE db_final_summary

C6_NeverOverwritten ==
    [][/\ db_final_summary # NoSummary => db_final_summary' = db_final_summary
       /\ db_final_predictions # NoPredictions
             => db_final_predictions' = db_final_predictions]_vars

\* The k-th turn of a run, in round-major, participant-minor order.
ExpectedTurn(k, P) == <<((k - 1) \div P) + 1, ((k - 1) % P) + 1>>

StartFailed(t) ==
    \E i \in 1..Len(events[t]) : events[t][i].type = "error" /\ events[t][i].round = 0

\* The run of thread t has left the round loop.
RoundsDone(t) ==
    /\ ~StartFailed(t)
    /\ pc[t] \notin {"rd_load", "rd_start_save", "rd_round", "rd_think",
                     "rd_respond", "rd_speech", "rd_message_save"}

\* C7: whatever turns fail, the model_thinking events of a run are emitted in
\* round-major, participant-minor order, one for every round and participant
\* once the rounds are over.
C7_EveryTurnAttempted ==
    LET th == OfType(events[Runner], "model_thinking")
    IN  /\ Len(th) <= rounds * nmodels
        /\ \A k \in 1..Len(th) : <<th[k].round, th[k].model>> = ExpectedTurn(k, nmodels)
        /\ RoundsDone(Runner) => Len(th) = rounds * nmodels

C7_Witness ==
    LET es == events[Runner]
    IN  /\ RoundsDone(Runner)
        /\ \E i \in 1..Len(es) :
              /\ es[i].type = "error"
              /\ \E j \in (i + 1)..Len(es) :
                    es[j].type = "model_thinking" /\ es[j].round = es[i].round

CompleteLast(t) ==
    /\ events[t] # <<>>
    /\ events[t][Len(events[t])].type = "debate_complete"
    /\ Len(OfType(events[t], "debate_complete")) = 1

\* C8: a run whose in_progress save succeeded eventually ends with exactly
\* one debate_complete event, its last event.
C8_EventuallyComplete ==
    (pc[Runner] = "rd_round") ~> (pc[Runner] = "done" /\ CompleteLast(Runner))

C8_Witness ==
    /\ pc[Runner] = "done"
    /\ CompleteLast(Runner)
    /\ OfType(events[Runner], "error") # <<>>
    /\ db_status # "completed"

\* C9: total_messages of the debate_complete event is the number of message
\* events of the run.
C9_TotalCountsMessageEvents ==
    \A i \in 1..Len(events[Runner]) :
        events[Runner][i].type = "debate_complete"
        => events[Runner][i].total_messages = Len(OfType(events[Runner], "message"))

InOrder(msgs, P) ==
    \A k \in 1..Len(msgs) :
        /\ msgs[k].sequence = k
        /\ <<msgs[k].round, msgs[k].model>> = ExpectedTurn(k, P)

\* C10: a finished run on a fresh debate in which no turn failed leaves
\* rounds * nmodels messages (in memory, in the durable record and as message
\* events), the k-th with sequence k, round ceil(k / P) and the participant
\* at position (k - 1) mod P.
C10_FullTranscript ==
    (pc[Runner] = "done" /\ OfType(events[Runner], "error") = <<>>)
    => /\ Len(debate[Runner].messages) = rounds * nmodels
       /\ InOrder(debate[Runner].messages, nmodels)
       /\ db_messages = debate[Runner].messages
       /\ Len(OfType(events[Runner], "message")) = rounds * nmodels
       /\ InOrder(OfType(events[Runner], "message"), nmodels)

C10_Witness ==
    /\ pc[Runner] = "done"
    /\ OfType(events[Runner], "error") = <<>>
    /\ rounds = MaxRounds /\ nmodels = MaxModels
    /\ Len(db_messages) = MaxRounds * MaxModels

\* Message a is not after message b in round-major, participant-minor order.
TurnNotAfter(a, b) ==
    a.round < b.round \/ (a.round = b.round /\ a.model <= b.model)

SequenceOrdered(ms) ==
    /\ \A i \in 1..(Len(ms) - 1) : ms[i + 1].sequence = ms[i].sequence + 1
    /\ \A i, j \in 1..Len(ms) :
          ms[i].sequence < ms[j].sequence => TurnNotAfter(ms[i], ms[j])

\* C11: in every run the messages of a debate, in memory and persisted, have
\* sequence numbers that increase by exactly 1 in creation order, and a
\* message with a smaller sequence number is not later in (round, position of
\* the participant) order.
C11_SequenceIsTurnOrder ==
    /\ SequenceOrdered(debate[Runner].messages)
    /\ SequenceOrdered(db_messages)

\* C12: for every emitted predictions mapping with a positive sum, the
\* predictions stored on the turn's message sum to exactly 100.00.
C12_StoredSumIsHundred ==
    (turn_pc = "stored" /\ SumValues(raw) > 0) => SumValues(predictions) = 10000

\* C13: with the valid outcomes Yes and No, the emitted predictions
\* {"yes": 70, "no": 20} are stored as {"Yes": 77.78, "No": 22.22}.
C13_CaseMismatchExample ==
    (turn_pc = "stored" /\ raw = ExampleRaw)
    => Range(predictions) = {<<"Yes", 7778>>, <<"No", 2222>>}

\* C14: the renormalization step applied to a mapping of two-decimal values
\* that sums to exactly 100.00 returns the mapping unchanged.
C14_RenormalizeIdempotent ==
    [][(turn_pc = "matched" /\ turn_pc' = "stored"
            /\ SumValues(predictions) = 10000)
       => predictions' = predictions]_vars

C14_Witness ==
    /\ turn_pc = "stored"
    /\ raw \in NormalizedRaws
    /\ predictions = raw
    /\ \E i \in DOMAIN predictions : predictions[i][2] % 100 # 0

\* C15: when the save of the in_progress status fails, the run emits exactly
\* one error event and stops: no model_thinking, message or debate_complete
\* event, no collaborator call, and the persisted debate is as it was.
C15_FatalStart ==
    StartFailed(Runner)
    => /\ pc[Runner] = "done"
       /\ Len(OfType(events[Runner], "error")) = 1
       /\ events[Runner][Len(events[Runner])].type = "error"
       /\ OfType(events[Runner], "model_thinking") = <<>>
       /\ OfType(events[Runner], "message") = <<>>
       /\ OfType(events[Runner], "debate_complete") = <<>>
       /\ collab_calls[Runner] = 0
       /\ generated = {}
       /\ db_status = "initialized"
       /\ db_current_round = 0
       /\ db_messages = <<>>

C15_Witness ==
    /\ StartFailed(Runner)
    /\ pc[Runner] = "done"
    /\ debate[Runner].status = "in_progress"

\* C16: every error event the run puts in the queue, and every error event
\* delivered to the consumer of the stream, has a non-blank error field and
\* a non-blank message field.
C16_ErrorEventsNotBlank ==
    /\ \A i \in 1..Len(events[Runner]) :
          events[Runner][i].type = "error"
          => ~Blank(events[Runner][i].error) /\ ~Blank(events[Runner][i].message)
    /\ \A c \in Range(delivered) \cup {chunk} :
          c.type = "debate_error" => ~Blank(c.error) /\ ~Blank(c.message)

C16_Witness ==
    \E i \in 1..Len(delivered) :
        /\ delivered[i].type = "debate_error"
        /\ delivered[i].round > 0

\* C17: the events delivered to the consumer are the events the run
\* generated, each once and in generation order, and all of them when the
\* stream ends with the consumer still connected.
C17_DeliveredInOrder ==
    /\ Len(delivered) <= Len(events[Runner])
    /\ \A i \in 1..Len(delivered) : delivered[i] = SSE(events[Runner][i])
    /\ (gen = "closed" /\ connected) => Len(delivered) = Len(events[Runner])

C17_Witness ==
    /\ gen = "closed"
    /\ connected
    /\ nmodels = MaxModels
    /\ Len(OfType(delivered, "message")) = MaxModels
    /\ delivered[Len(delivered)].type = "debate_complete"

\* C18 as stated: once the consumer has disconnected, the run executes no
\* further turn, calls no collaborator and writes nothing to the durable
\* record.
C18_NothingAfterDisconnect ==
    [][~connected
       => UNCHANGED <<dbvars, collab_calls, generated, round_num, model_index>>]_vars

\* C18 amended: a disconnect closes the generator at its next yield (an
\* event or a keepalive); from then on the run takes no step at all: no turn,
\* no collaborator call and no write to the durable record.
C18_NothingAfterClose ==
    [][/\ (~connected /\ gen = "yielding") => gen' \in {"yielding", "closed"}
       /\ gen = "closed"
            => UNCHANGED <<dbvars, collab_calls, generated, pc, runvars, gdrvars>>]_vars

C18_Witness ==
    /\ gen = "closed"
    /\ ~connected
    /\ pc[Runner] = "rd_speech"
    /\ db_status = "in_progress"
    /\ Len(db_messages) < Len(debate[Runner].messages) + 1

\* The transitions of the persisted status that the state machine allows.
AllowedTransitions ==
    {<<"initialized", "in_progress">>, <<"in_progress", "completed">>,
     <<"in_progress", "stopped">>, <<"in_progress", "paused">>,
     <<"paused", "in_progress">>}

\* C19: the persisted status only moves initialized -> in_progress ->
\* completed or stopped, with paused entered from and left to in_progress; a
\* completed debate never returns to in_progress, also when run_debate is
\* started again.
C19_StatusTransitions ==
    [][db_status' # db_status => <<db_status, db_status'>> \in AllowedTransitions]_vars

\* The run of thread t has loaded its debate.
Loaded(t) == kind[t] = "run" /\ pc[t] # "rd_load"

\* C20: 0 <= current_round <= rounds holds in memory and in the durable
\* record, and within a run current_round only moves up, one round at a time,
\* from 1 to rounds.
C20_CurrentRoundMonotone ==
    /\ [](/\ db_current_round \in 0..rounds
          /\ \A t \in Threads : debate[t].current_round \in 0..rounds)
    /\ [][\A t \in Threads :
            (Loaded(t) /\ debate'[t].current_round # debate[t].current_round)
            => debate'[t].current_round = debate[t].current_round + 1]_vars
    /\ [][db_current_round' >= db_current_round]_vars

\* C21: a message that is in the durable record stays there with the same
\* fields: no step of run_debate and no Debate.save removes or alters it.
C21_PersistedMessagesStay ==
    [][\A m \in Range(db_messages) : m \in Range(db_messages')]_vars

\* C22: _calculate_statistics called with an empty message list returns empty
\* average and median mappings, variance 0 and total_duration_seconds 0, and
\* raises no error, whatever the outcomes, the market odds and the timestamps.
C22_EmptyStatistics ==
    (stats_pc = "returned" /\ stats_args.messages = <<>>)
    => /\ ~statistics_data.raised
       /\ statistics_data.average_prediction = <<>>
       /\ statistics_data.median_prediction = <<>>
       /\ statistics_data.prediction_variance = 0
       /\ statistics_data.total_duration_seconds = 0

\* C23: when filter_outcomes_for_ai removes every outcome of the debate, no
\* turn calls the language-model collaborator (with an empty outcome list)
\* and no turn produces a message.
C23_NoCallWithoutOutcomes ==
    /\ \A t \in Threads : \A i \in DOMAIN llm_calls[t] :
          llm_calls[t][i].outcomes # <<>>
    /\ filter_outcomes_for_ai(outcomes) = <<>>
       => \A t \in Threads : /\ OfType(events[t], "message") = <<>>
                             /\ debate[t].messages = <<>>

\* The rules as the claim lists them.
RemovedAsListed(outcome) ==
    \/ lower(outcome.name) = "placeholder"
    \/ outcome.volume = Num(0)
    \/ outcome.shares = Num(0)
    \/ outcome.price_change_24h = Num(0)
    \/ /\ outcome.name = "Other"
       /\ outcome.price = 50
       /\ outcome.shares \in {None, Num(0)}

\* C24 as stated: filter_outcomes_for_ai returns, in input order, exactly the
\* outcomes that match none of the listed rules (placeholder in the name;
\* volume, shares or price_change_24h present and zero; 'Other' with price 0.5
\* and zero shares).
C24_FilterAsListed ==
    filter_pc = "returned"
    => filtered = SelectSeq(filter_arg, LAMBDA outcome : ~RemovedAsListed(outcome))

\* The rules with a volume or shares that is no number, and 'other' in any
\* letter case.
Removed(outcome) ==
    \/ lower(outcome.name) = "placeholder"
    \/ outcome.volume \in {Num(0), Unparsable}
    \/ outcome.shares \in {Num(0), Unparsable}
    \/ outcome.price_change_24h = Num(0)
    \/ /\ lower(outcome.name) = "other"
       /\ outcome.price = 50
       /\ outcome.shares = None

\* C24 as amended: filter_outcomes_for_ai returns, in input order, exactly the
\* outcomes that match none of the rules, where a volume or shares that cannot
\* be parsed as a number also removes the outcome and the name 'other' counts
\* in any letter case.
C24_FilterKeepsExactly ==
    filter_pc = "returned"
    => filtered = SelectSeq(filter_arg, LAMBDA outcome : ~Removed(outcome))

C24_Witness ==
    /\ filter_pc = "returned"
    /\ Len(filter_arg) = 3
    /\ Len(filtered) = 2
    /\ filtered[1] # filtered[2]
    /\ \E i \in DOMAIN filter_arg : filter_arg[i].volume = Unparsable

\* C25: in every turn whose model call succeeded, the message is in the
\* durable record when the speech-synthesis collaborator is invoked for it.
C25_PersistedBeforeSpeech ==
    [][\A t \in Threads :
          (pc[t] = "rd_speech" /\ collab_calls'[t] = collab_calls[t] + 1)
          => message[t] \in Range(db_messages)]_vars

\* The error events of the turn of message m among the events es.
TurnErrors(es, m) ==
    SelectSeq(es, LAMBDA e : e.type = "error" /\ e.round = m.round /\ e.model = m.model)

\* C26: a turn whose speech synthesis fails (the message gets no audio) emits
\* nothing for the failure and goes on to persist the message; when that save
\* succeeds the message is in the durable record, the turn's message event
\* carries no audio reference and the turn has emitted no error event.
C26_SpeechFailureIsSilent ==
    [][\A t \in Threads :
          /\ (/\ pc[t] = "rd_speech"
              /\ collab_calls'[t] = collab_calls[t] + 1
              /\ ~message'[t].audio)
             => /\ events'[t] = events[t]
                /\ pc'[t] = "rd_message_save"
                /\ debate'[t].messages = Append(debate[t].messages, message[t])
          /\ (/\ pc[t] = "rd_message_save"
              /\ ~message[t].audio
              /\ db_messages' # db_messages)
             => /\ message[t] \in Range(db_messages')
                /\ events'[t] = Append(events[t], MessageEv(message[t]))
                /\ ~MessageEv(message[t]).audio
                /\ TurnErrors(events'[t], message[t]) = <<>>]_vars

C26_Witness ==
    /\ \E i \in DOMAIN events[Runner] :
          events[Runner][i].type = "message" /\ ~events[Runner][i].audio
    /\ \E m \in Range(db_messages) : ~m.audio

\* The event e reports a failed message save.
IsSaveError(e) == e.type = "error" /\ e.error = save_error_data.error

\* C27: when the save of a turn's message fails, the turn emits exactly one
\* error event, which names the participant, it emits no message event, and
\* the run goes on with the next participant (or round, or the completion).
C27_SaveFailureReported ==
    /\ [](\A t \in Threads : \A i \in DOMAIN events[t] :
            IsSaveError(events[t][i])
            => /\ events[t][i].model \in 1..nmodels
               /\ Len(TurnErrors(events[t], events[t][i])) = 1
               /\ \A j \in DOMAIN events[t] :
                     events[t][j].type = "message"
                     => <<events[t][j].round, events[t][j].model>>
                        # <<events[t][i].round, events[t][i].model>>)
    /\ [][\A t \in Threads :
            (pc[t] = "rd_message_save" /\ faults' = faults + 1)
            => /\ events'[t] =
                    Append(events[t], ErrorEv(round_num[t], model_index[t], save_error_data))
               /\ <<pc'[t], round_num'[t], model_index'[t]>>
                  = <<TurnExit(round_num[t], model_index[t], rounds, nmodels).pc,
                      TurnExit(round_num[t], model_index[t], rounds, nmodels).round,
                      TurnExit(round_num[t], model_index[t], rounds, nmodels).model>>]_vars

C27_Witness ==
    \E i \in DOMAIN events[Runner] :
        /\ IsSaveError(events[Runner][i])
        /\ \E j \in DOMAIN events[Runner] :
              /\ j > i
              /\ events[Runner][j].type = "model_thinking"
              /\ events[Runner][j].model = events[Runner][i].model + 1

\* C28: a collaborator response that is null, not a mapping, lacks content or
\* has empty content makes the turn fail; no message with an empty text is
\* ever created, neither in a run's message list nor in the store.
C28_NoEmptyMessage ==
    /\ \A t \in Threads : \A i \in DOMAIN debate[t].messages :
          debate[t].messages[i].text # ""
    /\ \A m \in Range(db_messages) : m.text # ""

\* The messages of the run's list and of the store.
CreatedMessages ==
    Range(db_messages) \cup UNION {Range(debate[t].messages) : t \in Threads}

\* C29: every message created in round r of a debate with R rounds has kind
\* initial if r = 1, otherwise final if r = R, otherwise debate, and no
\* message has another kind.
C29_MessageKind ==
    \A m \in CreatedMessages \cup {message[t] : t \in {u \in Threads : message[u].round > 0}} :
        /\ m.round \in 1..rounds
        /\ m.message_type \in {"initial", "final", "debate"}
        /\ m.round = 1 => m.message_type = "initial"
        /\ (m.round # 1 /\ m.round = rounds) => m.message_type = "final"
        /\ (m.round # 1 /\ m.round # rounds) => m.message_type = "debate"

C29_Witness ==
    /\ rounds > 2
    /\ \A k \in {"initial", "final", "debate"} :
          \E m \in Range(db_messages) : m.message_type = k

\* C30: the is-final flag of every call of the language model is true exactly
\* when the call's round is the debate's last round, for every number of
\* rounds from 1 on.
C30_FinalFlagInLastRound ==
    \A t \in Threads : \A i \in DOMAIN llm_calls[t] :
        llm_calls[t][i].is_final_round <=> (llm_calls[t][i].round_num = rounds)

\* C31: a call of get_debate_results that finds final_summary set when it
\* loads the debate returns that summary at once: it does not invoke the
\* summarizer, does not query the row that holds summary_generating and does
\* not write the flag.
C31_CacheHitReturnsAtOnce ==
    [][\A t \in Threads :
          (/\ pc[t] = "gdr_load"
           /\ pc'[t] # "gdr_load"
           /\ db_status = "completed"
           /\ TruthySummary(db_final_summary))
          => /\ result'[t] = [how |-> "ok", summary |-> db_final_summary]
             /\ pc'[t] \notin {"gdr_final_read", "gdr_final_commit"}
             /\ collab_calls'[t] = collab_calls[t]
             /\ db_summary_generating' = db_summary_generating]_vars

\* The steps of get_debate_results that assign summary_generating.
FlagWriters == {"gdr_acquire", "gdr_release_on_error", "gdr_final_commit"}

\* C32: summary_generating changes only in a step of get_debate_results that
\* assigns it; every step of run_debate itself (its saves included) leaves
\* the flag as it is.
C32_FlagWrittenByResultsOnly ==
    [][/\ db_summary_generating' # db_summary_generating
          => \E t \in Threads : pc[t] \in FlagWriters /\ pc'[t] # pc[t]
       /\ (\E t \in Threads :
              /\ pc'[t] # pc[t]
              /\ pc[t] \in {"rd_load", "rd_start_save", "rd_round", "rd_think",
                            "rd_respond", "rd_speech", "rd_message_save",
                            "rd_complete_save", "rd_emit_complete"})
          => db_summary_generating' = db_summary_generating]_vars

\* One run generates under the flag while the other run, having saved the
\* start and the round of its own pass, is in its turn.
C32_Witness ==
    /\ db_summary_generating
    /\ \E u \in Runners : \E t \in Runners \ {u} :
          /\ pc[u] = "gdr_generate"
          /\ pc[t] = "rd_think"
          /\ db_status = "in_progress"
          /\ db_current_round = 1

\* The messages of the last round that has messages.
LastRoundMessages(messages) ==
    SelectSeq(messages, LAMBDA m : m.round = MaxRound(messages))

\* The messages are in the order of Debate.load: by round.
InRoundOrder(messages) ==
    \A i, j \in DOMAIN messages : i < j => messages[i].round <= messages[j].round

\* C33: the per-outcome average and median of _calculate_statistics are those
\* of the final-round messages alone: a participant without a message in the
\* last round contributes no value to them.
C33_FinalRoundOnly ==
    (/\ stats_pc = "returned"
     /\ ~statistics_data.raised
     /\ InRoundOrder(stats_args.messages))
    => LET afp == all_final_predictions(LastRoundMessages(stats_args.messages),
                                        stats_args.models)
       IN  /\ statistics_data.average_prediction
                = average_prediction(afp, stats_args.outcomes)
           /\ statistics_data.median_prediction
                = median_prediction(afp, stats_args.outcomes)

\* C34: with a the main outcome's average prediction and m its baseline
\* market probability, both in percent (polymarket_odds holds percent), the
\* label is bullish exactly when a > m, bearish exactly when a < m, aligned
\* exactly when a = m, and the magnitude is |a - m|.
C34_DeltaComparesPercentages ==
    (/\ stats_pc = "returned"
     /\ ~statistics_data.raised
     /\ statistics_data.ai_vs_market_delta.label # "N/A")
    => LET a == GetOrZero(statistics_data.average_prediction,
                          stats_args.outcomes[1].name)
           m == GetOrZero(stats_args.polymarket_odds, stats_args.outcomes[1].name)
           d == statistics_data.ai_vs_market_delta
       IN  /\ d.label = "more bullish" <=> a > m
           /\ d.label = "more bearish" <=> a < m
           /\ d.label = "AI aligned with market" <=> a = m
           /\ d.magnitude = (IF a < m THEN m - a ELSE a - m)

\* The labels of the raw mapping that do not contain 'placeholder'.
KeptLabels(d) == {l \in Keys(d) : lower(l) # "placeholder"}

\* The valid outcome names that the label l equals, or equals when letter
\* case is ignored.
ValidNamesOf(l) == {o \in valid_outcome_names : o = l \/ lower(o) = lower(l)}

\* C35: the keys of the stored predictions are: for every raw label without
\* 'placeholder', the valid outcome name it matches (exactly or ignoring
\* case) if there is one, and the label itself otherwise.
C35_StoredKeys ==
    turn_pc = "stored"
    => /\ \A l \in KeptLabels(raw) :
             IF ValidNamesOf(l) # {}
             THEN \E o \in ValidNamesOf(l) : o \in Keys(predictions)
             ELSE l \in Keys(predictions)
       /\ \A k \in Keys(predictions) :
             \E l \in KeptLabels(raw) :
                 IF ValidNamesOf(l) # {} THEN k \in ValidNamesOf(l) ELSE k = l

\* A raw mapping with a placeholder, a case-insensitive match and a label
\* that matches no valid outcome has been stored.
C35_Witness ==
    /\ turn_pc = "stored"
    /\ {"Placeholder", "yes", "Maybe"} \subseteq Keys(raw)
    /\ Keys(predictions) = {"Yes", "Maybe"}

\* C36: the predictions stored with a message are empty or sum to exactly
\* 100.00, whatever the model returned, a mapping whose values sum to zero
\* included.
C36_StoredEmptyOrHundred ==
    turn_pc = "stored" => (predictions = <<>> \/ SumValues(predictions) = 10000)

\* C37: once the run has ended (normally or by an unhandled exception) the
\* stream ends; a keep-alive is sent only while the run is still active and
\* the queue holds no event; and after the stream has ended nothing more, no
\* event and no keep-alive, is yielded or delivered.
C37_StreamEnds ==
    /\ (pc[Runner] = "done") ~> (gen = "closed")
    /\ [][/\ (chunk' = KeepAlive /\ chunk # KeepAlive)
             => (pc[Runner] # "done" /\ taken = Len(events[Runner]))
          /\ gen = "closed"
             => (gen' = "closed" /\ chunk' = NoChunk /\ delivered' = delivered)]_vars

\* The run has ended, by its completion or by an exception of Debate.load,
\* and the stream has ended with every event delivered to a consumer that is
\* still connected.
C37_Witness ==
    /\ pc[Runner] = "done"
    /\ gen = "closed"
    /\ connected
    /\ Len(delivered) = Len(events[Runner])
    /\ delivered[Len(delivered)].type \in {"debate_complete", "debate_error"}

\* C38: a call of get_debate_results invokes the summarizer, and writes
\* summary_generating, final_summary or final_predictions, only while the
\* persisted status of the debate is completed; a call that finds another
\* status returns no result and changes nothing.
C38_ResultsOnlyWhenCompleted ==
    [][\A t \in Threads :
          /\ (/\ pc[t] \in {"gdr_generate", "gdr_force"}
              /\ collab_calls'[t] # collab_calls[t])
             => db_status = "completed"
          /\ (/\ pc[t] \in FlagWriters
              /\ pc'[t] # pc[t]
              /\ <<db_summary_generating, db_final_summary, db_final_predictions>>'
                   # <<db_summary_generating, db_final_summary, db_final_predictions>>)
             => db_status = "completed"
          /\ (/\ pc[t] = "gdr_load"
              /\ pc'[t] # "gdr_load"
              /\ db_status # "completed")
             => /\ result'[t].how = "none"
                /\ UNCHANGED dbvars
                /\ collab_calls' = collab_calls]_vars

\* C39: summary_generating goes from true to false only in a step of a caller
\* that itself set it to true; no other call (a cache hit, a waiter or a
\* caller that generates after the wait limit) resets the flag.
C39_ReleasedByHolderOnly ==
    [][(db_summary_generating /\ ~db_summary_generating')
       => \E t \in Threads : pc'[t] # pc[t] /\ acquired[t]]_vars

\* The run of thread t has emitted the message event of m.
Delivered(t, m) ==
    \E i \in DOMAIN events[t] : events[t][i] = MessageEv(m)

\* C40: every message in the run's message list (the context of the later
\* turns) and every persisted message has been emitted as a message event of
\* the run, the message of the turn under way excepted: a turn that ended in
\* an error event leaves no message in the list or in the durable record.
C40_OnlyDeliveredMessagesKept ==
    \A t \in Threads :
        kind[t] = "run"
        => \A m \in Range(debate[t].messages) \cup Range(db_messages) :
              \/ Delivered(t, m)
              \/ pc[t] = "rd_message_save" /\ m = message[t]

====
